---- MODULE Spec2Model ----
(***************************************************************************)
(* The sheet-to-JSON pipeline of sitcon-tw/2026-cfs (src/unnamed/part_000) *)
(* as a state machine: configuration loading, the concurrent tab fetches   *)
(* (fetchCsv + parseCsv), mergeSheetData, downloadAllImages with its       *)
(* concurrent downloadImage tasks, the two JSON writes and process.exit;   *)
(* and the browser's interested-items store (src/src/utils).               *)
(*                                                                         *)
(* Strings are TLA+ strings (ASCII only): the sheet's CJK column names are *)
(* written as ASCII glosses, listed where they are defined.  A JavaScript  *)
(* object is a sequence of <<key, value>> pairs in Object.keys order.      *)
(***************************************************************************)
EXTENDS Integers, Sequences, FiniteSets, TLC

\* ------------------------------------------------------------------ bounds

\* Most records a fetched items tab holds in the model.
MaxItemRows == 2

\* Largest integer the model writes as a canonical decimal string (item
\* codes that are array indices, ordering hints).
MaxIndexKey == 10

\* Most records the primary tab holds when mergeSheetData is observed alone.
MaxMergeRows == 2

\* Highest sub-item index a record carries columns for when extractSubItems
\* is observed alone (above MAX_SUB_ITEMS, so that the limit is met).
MaxSubIndex == 52

\* Most tier columns (columns of index 2 and higher) the sponsorship tab
\* has when processPlanData is observed alone.
MaxTierColumns == 2

\* Largest maxQuantity an interested item carries in the model; the
\* quantities passed to updateItemQuantity reach one above it.
MaxQuantity == 2

\* ---------------------------------------------------------- JS primitives

\* JavaScript's undefined / null, never a cell value of a sheet.
NULL == "<null>"

\* JavaScript truthiness of a string-or-null value.
Truthy(v) == v # "" /\ v # NULL

\* a || b
Or(a, b) == IF Truthy(a) THEN a ELSE b

\* The property names every plain object ({}) inherits from Object.prototype
\* that an identifier matching [a-zA-Z0-9_-]+ can spell.
ObjectPrototypeKeys ==
    {"constructor", "toString", "valueOf", "hasOwnProperty", "isPrototypeOf",
     "propertyIsEnumerable", "toLocaleString", "__proto__",
     "__defineGetter__", "__defineSetter__", "__lookupGetter__",
     "__lookupSetter__"}

\* What obj[key] evaluates to for an inherited key: a function (or, for
\* __proto__, Object.prototype itself); truthy, and not a string.
Inherited(key) == "<Object.prototype." \o key \o ">"

IsInherited(v) == \E k \in ObjectPrototypeKeys : v = Inherited(k)

\* The sequence s without duplicates, as a set.
Range(s) == {s[i] : i \in 1..Len(s)}

\* Own keys of a JS object, in order.
Keys(obj) == [i \in 1..Len(obj) |-> obj[i][1]]

HasOwn(obj, key) == \E i \in 1..Len(obj) : obj[i][1] = key

Own(obj, key) == obj[CHOOSE i \in 1..Len(obj) : obj[i][1] = key][2]

\* row[key] || '' for a record of the CSV parser (an object created by the
\* parser, looked up with column names only).
RowGet(row, key) == IF HasOwn(row, key) THEN Or(Own(row, key), "") ELSE ""

\* obj[key] for a plain object ({}): the own property, else what
\* Object.prototype supplies, else undefined.
JSGet(obj, key) ==
    IF HasOwn(obj, key) THEN Own(obj, key)
    ELSE IF key \in ObjectPrototypeKeys THEN Inherited(key)
    ELSE NULL

\* A canonical array index ("0", "7", "10"): such keys come first in
\* Object.keys, in ascending numeric order.
IsArrayIndex(key) == \E n \in 0..MaxIndexKey : key = ToString(n)

IndexOf(key) == CHOOSE n \in 0..MaxIndexKey : key = ToString(n)

\* obj[key] = val for a plain object ({}): an own key keeps its place, a new
\* array-index key is placed among the index keys, any other new key goes
\* last; assigning to __proto__ creates no own property.
ObjSet(obj, key, val) ==
    IF key = "__proto__" THEN obj
    ELSE IF HasOwn(obj, key)
    THEN [i \in 1..Len(obj) |-> IF obj[i][1] = key THEN <<key, val>> ELSE obj[i]]
    ELSE IF IsArrayIndex(key)
    THEN LET p == 1 + Cardinality({i \in 1..Len(obj) :
                       /\ IsArrayIndex(obj[i][1])
                       /\ IndexOf(obj[i][1]) < IndexOf(key)})
         IN  SubSeq(obj, 1, p - 1) \o << <<key, val>> >> \o SubSeq(obj, p, Len(obj))
    ELSE Append(obj, <<key, val>>)

\* Object.values(obj)
Values(obj) == [i \in 1..Len(obj) |-> obj[i][2]]

\* --------------------------------------------------------- configuration

\* The tab names the pipeline looks up (lines 260, 271-274, 549).  The model
\* configures any subset of three of them; the other three satellite tabs
\* are then absent, as for a configuration that does not list them.
Tabs == {"items", "global_description", "sponsorship_plans"}

NotAString == "<number>"
Missing == "<missing>"

\* sheet.json as read at start-up: the file may be unreadable or hold invalid
\* JSON; spreadsheet_id may be missing, empty or of another type; sheets may
\* be missing, of another type, or an object mapping tab names to gids (the
\* model keeps the tab names: a gid only selects the URL).
Configs ==
    {[file |-> f, spreadsheet_id |-> "SID", sheetsType |-> "object", sheets |-> {}] :
        f \in {"unreadable", "invalid json"}}
    \cup {[file |-> "ok", spreadsheet_id |-> s, sheetsType |-> "object",
           sheets |-> {"items"}] : s \in {Missing, "", NotAString}}
    \cup {[file |-> "ok", spreadsheet_id |-> "SID", sheetsType |-> t, sheets |-> {}] :
            t \in {"undefined", "string"}}
    \cup {[file |-> "ok", spreadsheet_id |-> "SID", sheetsType |-> "object",
           sheets |-> S] : S \in SUBSET Tabs}

\* validateConfig checking nothing.
validateConfigLax(config) == TRUE

\* validateConfig: TRUE when it returns, FALSE when it throws.
validateConfig(config) ==
    /\ ~(config.spreadsheet_id \in {Missing, ""}
         \/ config.spreadsheet_id = NotAString)
    /\ ~(config.sheetsType = "undefined" \/ config.sheetsType # "object")

\* Lines 7-32: the configuration is usable (no process.exit(1) at load time).
ConfigOk(config) == config.file = "ok" /\ validateConfig(config)

\* ------------------------------------------------------------- fetchCsv

MAX_REDIRECTS == 5

\* The responses a server may give to a CSV request: a status code and the
\* Location header, a sequence <<scheme, rest>> or <<>> when absent.
Locations == {<<>>, <<"http://", "host/p">>, <<"https://", "host/p">>}

CsvResponses ==
    {[statusCode |-> s, location |-> <<>>] : s \in {200, 302, 303, 404}}
    \cup {[statusCode |-> s, location |-> l] : s \in {301, 307}, l \in Locations}

\* redirectUrl.startsWith('https://')
StartsWithHttps(url) == Len(url) > 0 /\ url[1] = "https://"

\* fetchCsvEnter with the bound off by one (>= for >).
fetchCsvEnterOffByOne(redirectCount) ==
    IF redirectCount >= MAX_REDIRECTS
    THEN [kind |-> "reject", redirectCount |-> redirectCount,
          error |-> "Too many redirects"]
    ELSE [kind |-> "get", redirectCount |-> redirectCount, error |-> ""]

\* The entry of fetchCsv(url, redirectCount), lines 44-50: reject at once
\* or issue the request.
fetchCsvEnter(redirectCount) ==
    IF redirectCount > MAX_REDIRECTS
    THEN [kind |-> "reject", redirectCount |-> redirectCount,
          error |-> "Too many redirects"]
    ELSE [kind |-> "get", redirectCount |-> redirectCount, error |-> ""]

\* fetchCsvOnResponse following every redirect status to any Location.
fetchCsvOnResponseAnyRedirect(response, redirectCount) ==
    IF response.statusCode \in {301, 302, 303, 307}
    THEN IF response.location = <<>>
         THEN [kind |-> "reject", redirectCount |-> redirectCount,
               error |-> "Invalid or insecure redirect URL"]
         ELSE fetchCsvEnter(redirectCount + 1)
    ELSE IF response.statusCode # 200
         THEN [kind |-> "reject", redirectCount |-> redirectCount,
               error |-> "HTTP " \o ToString(response.statusCode)]
         ELSE [kind |-> "resolve", redirectCount |-> redirectCount,
               error |-> ""]

\* The response callback of fetchCsv, lines 50-76, for a request issued with
\* redirectCount: follow the redirect (the recursive call), reject, or read
\* the body and resolve.
fetchCsvOnResponse(response, redirectCount) ==
    IF response.statusCode = 307 \/ response.statusCode = 301
    THEN IF response.location = <<>> \/ ~StartsWithHttps(response.location)
         THEN [kind |-> "reject", redirectCount |-> redirectCount,
               error |-> "Invalid or insecure redirect URL"]
         ELSE fetchCsvEnter(redirectCount + 1)
    ELSE IF response.statusCode # 200
         THEN [kind |-> "reject", redirectCount |-> redirectCount,
               error |-> "HTTP " \o ToString(response.statusCode)]
         ELSE [kind |-> "resolve", redirectCount |-> redirectCount,
               error |-> ""]

\* ------------------------------------------------------- column names
\* ASCII glosses of the sheet's column names (the source line that reads
\* each is given).
COL_NUMBER == "number"                        \* line 211, 267
COL_ITEM == "item"                            \* line 284, first alternative
COL_ITEM_NAME == "item name"                  \* line 284, second alternative
COL_QUANTITY == "quantity"                    \* line 285
COL_COPY == "copy"                            \* lines 287-296, the zh text
COL_DESCRIPTION == "description"              \* lines 288-297
COL_IMAGE_LINK == "image link"                \* line 280
COL_IMAGE_CAPTION == "image caption"          \* line 300
COL_IMAGE_DESCRIPTION == "image description"  \* line 301
COL_PRICE == "price"                          \* line 303
COL_DEADLINE == "deadline"                    \* line 305
COL_ORDER == "order"                          \* lines 307-309

\* The keys of sub-item index, lines 220-225.
nameZhKey(index) == "sub item " \o ToString(index)
nameEnKey(index) == "sub projects " \o ToString(index)
priceKey(index) == "sub item " \o ToString(index) \o " price"
imageKey(index) == "sub item " \o ToString(index) \o " image link"
imageDescZhKey(index) == "sub item " \o ToString(index) \o " image caption"
imageDescEnKey(index) == "sub item " \o ToString(index) \o " image description"

\* ------------------------------------------------ extractGoogleDriveId

\* The identifiers the model's image links carry: each matches
\* [a-zA-Z0-9_-]+ (no dot, no slash).
ImageIds == {"a", "b", "constructor"}

\* A sharable link: .../d/<id>/view...
DriveUrl(id) == "https://drive.google.com/file/d/" \o id \o "/view?usp=sharing"

\* A link without a /d/<id> segment.
OtherUrl == "https://example.com/pic.png"

\* url.match(/\/d\/([a-zA-Z0-9_-]+)/) on the model's links: the identifier
\* between /d/ and the next slash of a sharable link, null for an empty
\* cell or a link with no /d/ segment.
extractGoogleDriveId(url) ==
    IF ~Truthy(url) THEN NULL
    ELSE IF \E id \in ImageIds : url = DriveUrl(id)
    THEN CHOOSE id \in ImageIds : url = DriveUrl(id)
    ELSE NULL

\* ------------------------------------------ getExtensionFromContentType

mimeToExt ==
    << <<"image/jpeg", ".jpg">>, <<"image/jpg", ".jpg">>, <<"image/png", ".png">>,
       <<"image/gif", ".gif">>, <<"image/webp", ".webp">>,
       <<"image/svg+xml", ".svg">> >>

\* mimeToExt[contentType] || '.jpg' (an absent header is undefined, the key
\* "undefined", which the table lacks).
getExtensionFromContentType(contentType) ==
    Or(JSGet(mimeToExt, contentType), ".jpg")

\* ------------------------------------------------------ extractSubItems

MAX_SUB_ITEMS == 50

\* The while loop going on past an index without names instead of ending.
RECURSIVE extractSubItemsFromSkipGaps(_, _, _)
extractSubItemsFromSkipGaps(itemRow, index, subItems) ==
    IF index > MAX_SUB_ITEMS THEN [subItems |-> subItems, index |-> index]
    ELSE extractSubItemsFromSkipGaps(itemRow, index + 1,
             IF Truthy(RowGet(itemRow, nameZhKey(index)))
                \/ Truthy(RowGet(itemRow, nameEnKey(index)))
             THEN Append(subItems,
                      [name_zh |-> RowGet(itemRow, nameZhKey(index)),
                       name_en |-> RowGet(itemRow, nameEnKey(index)),
                       price |-> RowGet(itemRow, priceKey(index)),
                       image |-> Or(extractGoogleDriveId(
                                       RowGet(itemRow, imageKey(index))), ""),
                       image_description_zh |->
                           RowGet(itemRow, imageDescZhKey(index)),
                       image_description_en |->
                           RowGet(itemRow, imageDescEnKey(index))])
             ELSE subItems)

\* The while loop of extractSubItems from index on, lines 219-248: the
\* sub-items pushed, and the index the loop ends with.
RECURSIVE extractSubItemsFrom(_, _, _)
extractSubItemsFrom(itemRow, index, subItems) ==
    IF index > MAX_SUB_ITEMS THEN [subItems |-> subItems, index |-> index]
    ELSE IF ~Truthy(RowGet(itemRow, nameZhKey(index)))
            /\ ~Truthy(RowGet(itemRow, nameEnKey(index)))
    THEN [subItems |-> subItems, index |-> index]
    ELSE LET imageUrl == RowGet(itemRow, imageKey(index))
             imageId == extractGoogleDriveId(imageUrl)
             sub == [name_zh |-> RowGet(itemRow, nameZhKey(index)),
                     name_en |-> RowGet(itemRow, nameEnKey(index)),
                     price |-> RowGet(itemRow, priceKey(index)),
                     image |-> Or(imageId, ""),
                     image_description_zh |-> RowGet(itemRow, imageDescZhKey(index)),
                     image_description_en |-> RowGet(itemRow, imageDescEnKey(index))]
         IN  extractSubItemsFrom(itemRow, index + 1,
                 IF Truthy(RowGet(itemRow, nameZhKey(index)))
                    \/ Truthy(RowGet(itemRow, nameEnKey(index)))
                 THEN Append(subItems, sub) ELSE subItems)

\* extractSubItems warning one index early (index >= MAX_SUB_ITEMS).
extractSubItemsWarnEarly(itemRow) ==
    LET r == extractSubItemsFrom(itemRow, 1, <<>>)
    IN  [subItems |-> r.subItems, warned |-> r.index >= MAX_SUB_ITEMS]

\* extractSubItems(itemRow): the sub-items, and whether the warning of
\* lines 250-252 is raised.
extractSubItems(itemRow) ==
    LET r == extractSubItemsFrom(itemRow, 1, <<>>)
    IN  [subItems |-> r.subItems, warned |-> r.index > MAX_SUB_ITEMS]

\* ------------------------------------------------------- mergeSheetData

\* sheets[sheetName].find(row => row[number] === itemId): the first such
\* row; the empty record when the tab is absent or no row matches (every
\* use reads it through ?.[key] || '').
findItemInSheet(sheets, sheetName, itemId) ==
    IF sheetName \notin DOMAIN sheets THEN <<>>
    ELSE LET sheet == sheets[sheetName]
             hits == {i \in 1..Len(sheet) :
                        /\ HasOwn(sheet[i], COL_NUMBER)
                        /\ Own(sheet[i], COL_NUMBER) = itemId}
         IN  IF hits = {} THEN <<>>
             ELSE sheet[CHOOSE i \in hits : \A j \in hits : i <= j]

\* parseInt(text || '0') || 0 on the model's cells: a canonical decimal
\* numeral gives its value, an empty or non-numeric cell gives 0.
parseOrder(text) ==
    IF \E n \in 0..MaxIndexKey : text = ToString(n)
    THEN CHOOSE n \in 0..MaxIndexKey : text = ToString(n)
    ELSE 0

\* The Item built from one primary-tab row, lines 271-312.
buildItem(sheets, itemRow) ==
    LET itemId == RowGet(itemRow, COL_NUMBER)
        globalDesc == findItemInSheet(sheets, "global_description", itemId)
        talentRec == findItemInSheet(sheets, "talent_recruitment", itemId)
        brandExp == findItemInSheet(sheets, "brand_exposure", itemId)
        productProm == findItemInSheet(sheets, "product_promotion", itemId)
        subItems == extractSubItems(itemRow).subItems
        mainImageUrl == RowGet(itemRow, COL_IMAGE_LINK)
        mainImageId == extractGoogleDriveId(mainImageUrl)
    IN  [name |-> Or(RowGet(itemRow, COL_ITEM), RowGet(itemRow, COL_ITEM_NAME)),
         quantity |-> RowGet(itemRow, COL_QUANTITY),
         global_description_zh |-> RowGet(globalDesc, COL_COPY),
         global_description_en |-> RowGet(globalDesc, COL_DESCRIPTION),
         talent_recruitment_zh |-> RowGet(talentRec, COL_COPY),
         talent_recruitment_en |-> RowGet(talentRec, COL_DESCRIPTION),
         brand_exposure_zh |-> RowGet(brandExp, COL_COPY),
         brand_exposure_en |-> RowGet(brandExp, COL_DESCRIPTION),
         product_promotion_zh |-> RowGet(productProm, COL_COPY),
         product_promotion_en |-> RowGet(productProm, COL_DESCRIPTION),
         image |-> Or(mainImageId, ""),
         image_description_zh |-> RowGet(itemRow, COL_IMAGE_CAPTION),
         image_description_en |-> RowGet(itemRow, COL_IMAGE_DESCRIPTION),
         price |-> RowGet(itemRow, COL_PRICE),
         deadline |-> RowGet(globalDesc, COL_DEADLINE),
         talent_recruitment_order |-> parseOrder(RowGet(talentRec, COL_ORDER)),
         brand_exposure_order |-> parseOrder(RowGet(brandExp, COL_ORDER)),
         product_promotion_order |-> parseOrder(RowGet(productProm, COL_ORDER)),
         sub |-> subItems]

\* The forEach of lines 266-313 over the rows from index i on.
RECURSIVE mergeRows(_, _, _, _)
mergeRows(sheets, itemsSheet, i, items) ==
    IF i > Len(itemsSheet) THEN items
    ELSE LET itemRow == itemsSheet[i]
             itemId == RowGet(itemRow, COL_NUMBER)
         IN  mergeRows(sheets, itemsSheet, i + 1,
                 IF ~Truthy(itemId) THEN items
                 ELSE ObjSet(items, itemId, buildItem(sheets, itemRow)))

\* mergeSheetData without the guard of lines 262-264: an absent or empty
\* items tab gives an empty catalog.
mergeSheetDataUnguarded(sheets) ==
    [threw |-> FALSE, error |-> "",
     items |-> IF "items" \notin DOMAIN sheets THEN <<>>
               ELSE mergeRows(sheets, sheets["items"], 1, <<>>)]

\* mergeSheetData(sheets): it throws when the items tab is absent or empty,
\* else returns the catalog.
mergeSheetData(sheets) ==
    IF "items" \notin DOMAIN sheets \/ Len(sheets["items"]) = 0
    THEN [threw |-> TRUE, error |-> "Items sheet is empty or not found",
          items |-> <<>>]
    ELSE [threw |-> FALSE, error |-> "",
          items |-> mergeRows(sheets, sheets["items"], 1, <<>>)]

\* ------------------------------------------------------ processPlanData

\* ASCII glosses of the four curated tier names of lines 483-486.
TIER_NAVIGATOR == "zh:navigator"
TIER_DEEP_CULTIVATION == "zh:deep_cultivation"
TIER_VISIONARY == "zh:visionary"
TIER_NEW_SPROUT == "zh:new_sprout"

nameMap ==
    << <<TIER_NAVIGATOR, [en |-> "Navigator Tier", id |-> "navigator"]>>,
       <<TIER_DEEP_CULTIVATION,
         [en |-> "Deep Cultivation Tier", id |-> "deep_cultivation"]>>,
       <<TIER_VISIONARY, [en |-> "Visionary Tier", id |-> "visionary"]>>,
       <<TIER_NEW_SPROUT, [en |-> "New Sprout Tier", id |-> "new_sprout"]>> >>

\* ASCII glosses of the three literal category headers of line 518, and of
\* a text ending in the "exposure" suffix the pattern's last alternative
\* matches.
CAT_VENUE == "zh:venue"
CAT_LOGO_EXPOSURE == "Logo zh:exposure"
CAT_NETWORK == "zh:network promotion"
CAT_OTHER_EXPOSURE == "Booth zh:exposure"

\* categoryPattern.test(itemName) on the model's texts.
categoryPattern(itemName) ==
    itemName \in {CAT_VENUE, CAT_LOGO_EXPOSURE, CAT_NETWORK, CAT_OTHER_EXPOSURE}

\* String.prototype.trim on the model's cells: the cells written with
\* surrounding blanks are listed, every other cell has none.
trim(text) ==
    CASE text = " " -> ""
      [] text = " Gold " -> "Gold"
      [] text = " 2 " -> "2"
      [] text = " Booth " -> "Booth"
      [] OTHER -> text

\* String.prototype.toLowerCase on the model's tier names (the glosses of
\* CJK names are unchanged, as CJK text is).
toLowerCase(text) ==
    CASE text = "Gold" -> "gold"
      [] OTHER -> text

\* The property key a value is converted to.
PropKey(v) == IF v = NULL THEN "undefined" ELSE v

\* row[Object.keys(row)[i]] for a 0-based i: past the last key the key is
\* undefined, and the property "undefined" is read.
CellAt(row, i) ==
    IF i < Len(row) THEN row[i + 1][2]
    ELSE IF HasOwn(row, "undefined") THEN Own(row, "undefined") ELSE NULL

\* Lines 443-449: itemNameToId from the catalog, in Object.keys order.
RECURSIVE buildItemNameToId(_, _, _)
buildItemNameToId(itemsData, i, itemNameToId) ==
    IF i > Len(itemsData) THEN itemNameToId
    ELSE LET id == itemsData[i][1]
             itemName == itemsData[i][2].name
         IN  buildItemNameToId(itemsData, i + 1,
                 IF Truthy(itemName) THEN ObjSet(itemNameToId, itemName, id)
                 ELSE itemNameToId)

\* Lines 458-468: the tiers of the header row from 0-based column i on.
RECURSIVE scanHeaderRow(_, _, _)
scanHeaderRow(headerRow, i, planTiers) ==
    IF i >= Len(headerRow) THEN planTiers
    ELSE LET tierName == headerRow[i + 1][2]
         IN  scanHeaderRow(headerRow, i + 1,
                 IF Truthy(tierName) /\ Truthy(trim(tierName))
                 THEN Append(planTiers,
                          [index |-> i, name_zh |-> trim(tierName),
                           id |-> toLowerCase(trim(tierName))])
                 ELSE planTiers)

\* Line 489: nameMap[tier.name_zh] || { en: tier.name_zh, id: tier.id }; an
\* inherited property of nameMap is truthy and has neither en nor id.
mappedTier(tier) ==
    IF HasOwn(nameMap, tier.name_zh) THEN Own(nameMap, tier.name_zh)
    ELSE IF tier.name_zh \in ObjectPrototypeKeys THEN [en |-> NULL, id |-> NULL]
    ELSE [en |-> tier.name_zh, id |-> tier.id]

\* Lines 480-499: the plans object built from the tiers from position k on.
RECURSIVE buildPlans(_, _, _, _)
buildPlans(planTiers, priceRow, k, plans) ==
    IF k > Len(planTiers) THEN plans
    ELSE LET tier == planTiers[k]
             mapped == mappedTier(tier)
         IN  buildPlans(planTiers, priceRow, k + 1,
                 ObjSet(plans, PropKey(mapped.id),
                        [id |-> mapped.id, name_zh |-> tier.name_zh,
                         name_en |-> mapped.en,
                         price |-> Or(CellAt(priceRow, tier.index), ""),
                         order |-> k, benefits |-> <<>>]))

\* Lines 524-538 for one retained row: each tier pushes its benefit onto the
\* plan whose key stands at the tier's position in Object.keys(plans).
RECURSIVE pushBenefits(_, _, _, _, _, _)
pushBenefits(planTiers, row, itemId, itemName, k, plans) ==
    IF k > Len(planTiers) THEN plans
    ELSE LET benefitValue == CellAt(row, planTiers[k].index)
             benefit == [item_id |-> itemId, item_name |-> itemName,
                         quantity |-> IF Truthy(benefitValue)
                                      THEN trim(benefitValue) ELSE ""]
             planId == IF k <= Len(plans) THEN plans[k][1] ELSE "undefined"
         IN  pushBenefits(planTiers, row, itemId, itemName, k + 1,
                 IF HasOwn(plans, planId)
                 THEN [i \in 1..Len(plans) |->
                          IF plans[i][1] = planId
                          THEN <<planId, [plans[i][2] EXCEPT
                                   !.benefits = Append(@, benefit)]>>
                          ELSE plans[i]]
                 ELSE plans)

\* rowSkipped skipping every text that reads as a category header, an
\* Item's name or not.
rowSkippedAnyCategory(itemNameToId, itemName) ==
    ~Truthy(itemName) \/ categoryPattern(itemName)

\* Whether the row at rowIndex is skipped, lines 513-521.
rowSkipped(itemNameToId, itemName) ==
    \/ ~Truthy(itemName)
    \/ ~HasOwn(itemNameToId, itemName) /\ categoryPattern(itemName)

\* Lines 502-539: the rows from 1-based position r on.
RECURSIVE extractBenefits(_, _, _, _, _)
extractBenefits(planSheet, itemNameToId, planTiers, r, plans) ==
    IF r > Len(planSheet) THEN plans
    ELSE LET row == planSheet[r]
             lead == CellAt(row, 0)
             itemName == IF Truthy(lead) THEN trim(lead) ELSE ""
             itemId == Or(JSGet(itemNameToId, itemName), "")
         IN  extractBenefits(planSheet, itemNameToId, planTiers, r + 1,
                 IF rowSkipped(itemNameToId, itemName) THEN plans
                 ELSE pushBenefits(planTiers, row, itemId, itemName, 1, plans))

\* processPlanData(planSheet, itemsData): it throws on an empty tab, and
\* (a TypeError of Object.keys(undefined), line 473) when the tab has a
\* single record whose cells name a tier; else it returns the plans.
processPlanData(planSheet, itemsData) ==
    IF Len(planSheet) = 0
    THEN [threw |-> TRUE, error |-> "Plan sheet is empty or not found",
          plans |-> <<>>]
    ELSE LET itemNameToId == buildItemNameToId(itemsData, 1, <<>>)
             planTiers == scanHeaderRow(planSheet[1], 2, <<>>)
         IN  IF Len(planSheet) < 2 /\ Len(planTiers) > 0
             THEN [threw |-> TRUE,
                   error |-> "Cannot convert undefined or null to object",
                   plans |-> <<>>]
             ELSE LET priceRow == IF Len(planSheet) < 2 THEN <<>> ELSE planSheet[2]
                      plans == buildPlans(planTiers, priceRow, 1, <<>>)
                  IN  [threw |-> FALSE, error |-> "",
                       plans |-> extractBenefits(planSheet, itemNameToId,
                                                 planTiers, 3, plans)]

\* ------------------------------------------------------- downloadImage

IMAGES_DIR == "./src/assets/img/items"

\* outputPathOf ignoring the identifier.
outputPathOfFixed(imageId) == <<IMAGES_DIR, "image">>

\* path.join(imagesDir, imageId): a path is <<directory, base name>> (an
\* identifier holds no slash).
outputPathOf(imageId) == <<IMAGES_DIR, imageId>>

\* outputPath + ext
finalOutputPathOf(outputPath, ext) == <<outputPath[1], outputPath[2] \o ext>>

\* path.basename(filePath)
basename(filePath) == filePath[2]

\* The Content-Type headers of the model's image responses (NULL: absent).
ContentTypes == {NULL, "image/png", "text/html"}

\* The responses a server may give to an image request.
ImgResponses ==
    {[statusCode |-> 200, location |-> <<>>, contentType |-> c] : c \in ContentTypes}
    \cup {[statusCode |-> 404, location |-> <<>>, contentType |-> NULL]}
    \cup {[statusCode |-> s, location |-> l, contentType |-> NULL] :
            s \in {301, 302, 303, 307}, l \in {<<>>, <<"https://", "host/p">>}}

\* The Content-Type headers a single observed call may be answered with:
\* every key of the table, a key in other letter case, a type with a
\* parameter, and a header value that names a property every plain object
\* inherits.
CallContentTypes ==
    ContentTypes \cup
    {"image/jpeg", "image/jpg", "image/gif", "image/webp", "image/svg+xml",
     "IMAGE/PNG", "image/png; charset=binary", "constructor"}

\* The responses a single observed call may be given.
CallImgResponses ==
    ImgResponses \cup
    {[statusCode |-> 200, location |-> <<>>, contentType |-> c] :
        c \in CallContentTypes}

IsRedirect(response) == response.statusCode \in {307, 301, 302, 303}

\* handleFinalResponse, lines 110-130, up to the creation of the stream.
handleFinalResponse(finalResponse, n, outputPath) ==
    IF finalResponse.statusCode # 200
    THEN [kind |-> "reject", n |-> n, path |-> <<>>,
          error |-> "Failed to download image: "
                     \o ToString(finalResponse.statusCode)]
    ELSE [kind |-> "write", n |-> n,
          path |-> finalOutputPathOf(outputPath,
                      getExtensionFromContentType(finalResponse.contentType)),
          error |-> ""]

\* downloadImageOnResponse following a redirect at every hop.
downloadImageOnResponseLoop(response, n, outputPath) ==
    IF IsRedirect(response)
    THEN IF response.location = <<>>
         THEN [kind |-> "reject", n |-> n, path |-> <<>>,
               error |-> "Redirect URL not found"]
         ELSE [kind |-> "get", n |-> n + 1, path |-> <<>>, error |-> ""]
    ELSE handleFinalResponse(response, n, outputPath)

\* The callback of the n-th request of downloadImage (lines 132-161 for the
\* first, 141-156 for the second, 151 for the third): issue the next
\* request, reject, or start writing the file.
downloadImageOnResponse(response, n, outputPath) ==
    IF n = 1 /\ IsRedirect(response)
    THEN IF response.location = <<>>
         THEN [kind |-> "reject", n |-> n, path |-> <<>>,
               error |-> "Redirect URL not found"]
         ELSE [kind |-> "get", n |-> 2, path |-> <<>>, error |-> ""]
    ELSE IF n = 2 /\ IsRedirect(response)
    THEN IF response.location = <<>>
         THEN [kind |-> "reject", n |-> n, path |-> <<>>,
               error |-> "Second redirect URL not found"]
         ELSE [kind |-> "get", n |-> 3, path |-> <<>>, error |-> ""]
    ELSE handleFinalResponse(response, n, outputPath)

\* ---------------------------------------------------- downloadAllImages

\* SetAdd as the push of an array: duplicates kept.
SetAddNoDedup(set, v) == Append(set, v)

\* new Set() after add(v): insertion order, no duplicate.
SetAdd(set, v) == IF v \in Range(set) THEN set ELSE Append(set, v)

\* Lines 346-350 for the sub-items from position j on.
RECURSIVE collectSubImageIds(_, _, _)
collectSubImageIds(sub, j, imageIds) ==
    IF j > Len(sub) THEN imageIds
    ELSE collectSubImageIds(sub, j + 1,
             IF Truthy(sub[j].image) THEN SetAdd(imageIds, sub[j].image)
             ELSE imageIds)

\* Lines 342-351: the identifiers of the items from position i on.
RECURSIVE collectImageIds(_, _, _)
collectImageIds(itemsData, i, imageIds) ==
    IF i > Len(itemsData) THEN imageIds
    ELSE LET item == itemsData[i][2]
             withMain == IF Truthy(item.image) THEN SetAdd(imageIds, item.image)
                         ELSE imageIds
         IN  collectImageIds(itemsData, i + 1,
                             collectSubImageIds(item.sub, 1, withMain))

\* rewriteImage taking the file name of the download that finished last (a
\* file name variable shared by the tasks).
rewriteImageLastFinished(image, imageIdToFileName) ==
    IF Truthy(image) /\ Truthy(JSGet(imageIdToFileName, image))
    THEN IF Len(imageIdToFileName) > 0
         THEN imageIdToFileName[Len(imageIdToFileName)][2]
         ELSE JSGet(imageIdToFileName, image)
    ELSE image

\* Lines 374-380: one image reference after the rewriting.
rewriteImage(image, imageIdToFileName) ==
    IF Truthy(image) /\ Truthy(JSGet(imageIdToFileName, image))
    THEN JSGet(imageIdToFileName, image)
    ELSE image

\* Lines 373-382: the catalog with its references rewritten.
rewriteReferences(itemsData, imageIdToFileName) ==
    [i \in 1..Len(itemsData) |->
        <<itemsData[i][1],
          [itemsData[i][2] EXCEPT
              !.image = rewriteImage(@, imageIdToFileName),
              !.sub = [j \in 1..Len(@) |->
                          [@[j] EXCEPT
                              !.image = rewriteImage(@, imageIdToFileName)]]]>>]

\* ------------------------------------------------------ the tabs served

\* Records of the items tab, as the CSV parser returns them.
ItemRowA ==
    << <<COL_NUMBER, "7">>, <<COL_ITEM, "Booth">>, <<COL_QUANTITY, "3">>,
       <<COL_IMAGE_LINK, DriveUrl("a")>>,
       <<nameZhKey(1), "Table">>, <<imageKey(1), OtherUrl>> >>

ItemRowB ==
    << <<COL_NUMBER, "10">>, <<COL_ITEM, "Logo">>, <<COL_QUANTITY, "">>,
       <<COL_IMAGE_LINK, DriveUrl("b")>>,
       <<nameZhKey(1), "">>, <<nameEnKey(1), "Banner">>,
       <<imageKey(1), DriveUrl("a")>> >>

ItemRowC ==
    << <<COL_NUMBER, "x">>, <<COL_ITEM, "">>, <<COL_ITEM_NAME, "Talk">>,
       <<COL_QUANTITY, "1">>, <<COL_IMAGE_LINK, DriveUrl("constructor")>> >>

ItemRows == {ItemRowA, ItemRowB, ItemRowC}

\* The contents an items tab may have: no record, or up to MaxItemRows
\* different records in any order.
ItemSheets ==
    {<<>>} \cup
    UNION {{sh \in [1..n -> ItemRows] : \A i, j \in 1..n : sh[i] = sh[j] => i = j} :
            n \in 1..MaxItemRows}

GlobalDescriptionSheets ==
    {<<>>,
     << << <<COL_NUMBER, "7">>, <<COL_COPY, "zh copy">>,
           <<COL_DESCRIPTION, "Booth space">>, <<COL_DEADLINE, "2026/01/31">> >> >>}

\* A record of the sponsorship tab: the keys are the cells of the CSV's
\* first line, in column order.
PlanRow(cells) ==
    [i \in 1..Len(cells) |->
        <<IF i = 1 THEN "" ELSE "k" \o ToString(i - 1), cells[i]>>]

PlanHeaderRow == PlanRow(<<"", "price", TIER_NAVIGATOR, " Gold ">>)

PlanSheets ==
    {<<>>,
     <<PlanHeaderRow>>,
     <<PlanHeaderRow,
       PlanRow(<<"", "", "$100000", "$50000">>),
       PlanRow(<<CAT_VENUE, "", "", "">>),
       PlanRow(<<"Booth", "", " 2 ", "">>)>>}

\* What parseCsv may resolve with for a tab.
TabRecords(tab) ==
    CASE tab = "items" -> ItemSheets
      [] tab = "global_description" -> GlobalDescriptionSheets
      [] tab = "sponsorship_plans" -> PlanSheets

\* ------------------------------------------------------------- the state

VARIABLES
    config,             \* sheet.json as read at start-up
    pc,                 \* where the script and main() stand
    exitCode,           \* the calls of process.exit, as a sequence
    error,              \* the message of the error that ended the run
    steps,              \* the steps main() has started, in order
    fetch,              \* per tab: the position of its fetch task
    sheets,             \* per tab: the records its task resolved with
    mergedData,         \* the catalog (mergeSheetData's result)
    dirExists,          \* whether the image directory exists
    dirFiles,           \* its files: [name, writer], "old" from before the run
    downloadTasks,      \* the identifiers a download task was started for
    download,           \* per identifier: the position of its task
    imageIdToFileName,  \* identifier -> file name, set by finished downloads
    itemJson,           \* the contents written to item.json, in order
    plansData,          \* processPlanData's result
    planJson,           \* the contents written to plan.json, in order
    fetchCsvCall,       \* one call of fetchCsv observed alone (SpecFetchCsv)
    downloadImageCall,  \* one call of downloadImage observed alone
                        \* (SpecDownloadImage)
    call,               \* one call of a synchronous function observed alone:
                        \* its name, its arguments and, once it has
                        \* returned or thrown, its result
    localStorage,       \* the browser's value under INTEREST_ITEMS_KEY: <<>>
                        \* when absent, else <<the items of the JSON text>>
    storeCall           \* the last call of a function of the interested-
                        \* items store: name, argument, result, the items
                        \* before it and the itemsChange events it dispatched

vars == <<config, pc, exitCode, error, steps, fetch, sheets, mergedData,
          dirExists, dirFiles, downloadTasks, download, imageIdToFileName,
          itemJson, plansData, planJson, fetchCsvCall, downloadImageCall, call,
          localStorage, storeCall>>

fetchVars == <<fetch, sheets>>
imageVars == <<dirExists, dirFiles, downloadTasks, download, imageIdToFileName>>
outputVars == <<itemJson, plansData, planJson>>
storeVars == <<localStorage, storeCall>>
callVars == <<fetchCsvCall, downloadImageCall, call, storeVars>>
pipelineVars == <<config, pc, exitCode, error, steps, fetchVars, mergedData,
                  imageVars, outputVars>>

\* No call is observed alone.
NoCall == [state |-> <<"none">>, requests |-> 0, responses |-> <<>>,
           error |-> "", fileId |-> "", files |-> {}]

\* The image directory before the run: absent, or holding files of an
\* earlier run (one of them named as a file of this run may be).
\* No synchronous function is observed alone.
NoFunctionCall == [fn |-> "none"]

\* The browser's store is empty and none of its functions was called.
StoreIdle == localStorage = <<>> /\ storeCall = NoFunctionCall

OldFiles == {[name |-> "a.png", writer |-> "old"], [name |-> "z.jpg", writer |-> "old"]}

Init ==
    /\ StoreIdle
    /\ fetchCsvCall = NoCall
    /\ downloadImageCall = NoCall
    /\ call = NoFunctionCall
    /\ config \in Configs
    /\ pc = "Idle"
    /\ exitCode = <<>>
    /\ error = ""
    /\ steps = <<>>
    /\ fetch = [t \in Tabs |-> <<"none">>]
    /\ sheets = [t \in Tabs |-> <<>>]
    /\ mergedData = <<>>
    /\ \/ dirExists = FALSE /\ dirFiles = {}
       \/ dirExists = TRUE /\ dirFiles = OldFiles
    /\ downloadTasks = <<>>
    /\ download = [id \in ImageIds |-> <<"none">>]
    /\ imageIdToFileName = <<>>
    /\ itemJson = <<>>
    /\ plansData = <<>>
    /\ planJson = <<>>

\* Failed exiting with status 0.
FailedExitZero(message) ==
    /\ pc' = "Failed"
    /\ exitCode' = Append(exitCode, 0)
    /\ error' = message

\* The catch of main(), lines 424-427: the error is printed and the process
\* exits with status 1.
Failed(message) ==
    /\ pc' = "Failed"
    /\ exitCode' = Append(exitCode, 1)
    /\ error' = message

\* Lines 7-35 and 387-392, 184-201: the configuration is read and checked
\* (process.exit(1) when it is unusable), then main() calls fetchAllSheets,
\* which starts one fetch task per configured tab; each issues its first
\* request.
StartUp ==
    /\ pc = "Idle"
    /\ IF ~ConfigOk(config)
       THEN /\ Failed(IF config.file # "ok"
                      THEN "Failed to read or parse sheet.json"
                      ELSE "Configuration validation failed")
            /\ UNCHANGED <<steps, fetch>>
       ELSE /\ pc' = "FetchingSheets"
            /\ steps' = Append(steps, "fetchAllSheets")
            /\ fetch' = [t \in Tabs |->
                            IF t \in config.sheets
                            THEN <<fetchCsvEnter(0).kind, 0>> ELSE <<"none">>]
            /\ UNCHANGED <<exitCode, error>>
    /\ UNCHANGED <<config, sheets, mergedData>>
    /\ UNCHANGED <<imageVars, outputVars, callVars>>

\* RejectFetch with the task's catch swallowing the error (no rethrow).
RejectFetchSwallowed(tab, message) ==
    /\ fetch' = [fetch EXCEPT ![tab] = <<"rejected">>]
    /\ UNCHANGED <<config, pc, exitCode, error, steps, sheets, mergedData>>
    /\ UNCHANGED <<imageVars, outputVars, callVars>>

\* A fetch task rejects (lines 195-198 log and rethrow): Promise.all rejects,
\* the await of line 392 throws and main's catch ends the process; the
\* other tasks' requests are abandoned.
RejectFetch(tab, message) ==
    /\ fetch' = [fetch EXCEPT ![tab] = <<"rejected">>]
    /\ Failed(message)
    /\ UNCHANGED <<config, steps, sheets, mergedData>>
    /\ UNCHANGED <<imageVars, outputVars, callVars>>

\* The response callback of a tab's request in flight.
FetchCsvResponse(tab) ==
    /\ pc = "FetchingSheets"
    /\ fetch[tab][1] = "get"
    /\ \E response \in CsvResponses :
         LET r == fetchCsvOnResponse(response, fetch[tab][2])
         IN  IF r.kind = "reject" THEN RejectFetch(tab, r.error)
             ELSE /\ fetch' = [fetch EXCEPT ![tab] =
                                  IF r.kind = "get" THEN <<"get", r.redirectCount>>
                                  ELSE <<"body">>]
                  /\ UNCHANGED <<config, pc, exitCode, error, steps, sheets,
                                 mergedData>>
                  /\ UNCHANGED <<imageVars, outputVars, callVars>>

\* Line 76: the request fails (.on('error', reject)).
FetchCsvError(tab) ==
    /\ pc = "FetchingSheets"
    /\ fetch[tab][1] = "get"
    /\ RejectFetch(tab, "request error")

\* Lines 72-75 and 191-192: the body has been read, fetchCsv resolves with
\* the text and the task calls parseCsv.
FetchCsvEnd(tab) ==
    /\ pc = "FetchingSheets"
    /\ fetch[tab] = <<"body">>
    /\ fetch' = [fetch EXCEPT ![tab] = <<"parse">>]
    /\ UNCHANGED <<config, pc, exitCode, error, steps, sheets, mergedData>>
    /\ UNCHANGED <<imageVars, outputVars, callVars>>

\* Lines 165-182 and 192-194: the parser ends with the records, or fails on
\* malformed CSV.
ParseCsvEnd(tab) ==
    /\ pc = "FetchingSheets"
    /\ fetch[tab] = <<"parse">>
    /\ \/ RejectFetch(tab, "parse error")
       \/ \E records \in TabRecords(tab) :
            /\ fetch' = [fetch EXCEPT ![tab] = <<"done">>]
            /\ sheets' = [sheets EXCEPT ![tab] = records]
            /\ UNCHANGED <<config, pc, exitCode, error, steps, mergedData>>
            /\ UNCHANGED <<imageVars, outputVars, callVars>>

\* Whether Promise.all(fetchPromises) is fulfilled, line 201.
allFetched == \A tab \in config.sheets : fetch[tab] = <<"done">>

\* Object.fromEntries(results), line 202: the tabs whose task resolved, by
\* name (every consumer looks a tab up by name).
sheetsByName == [tab \in {t \in Tabs : fetch[t] = <<"done">>} |-> sheets[tab]]

\* Line 201-204 and 392: every task has resolved, fetchAllSheets returns
\* and main goes on to merge.
FetchAllSheetsJoin ==
    /\ pc = "FetchingSheets"
    /\ allFetched
    /\ pc' = "Merging"
    /\ UNCHANGED <<config, exitCode, error, steps, fetchVars, mergedData>>
    /\ UNCHANGED <<imageVars, outputVars, callVars>>

\* Line 395: mergeSheetData(sheets).
MergeSheetData ==
    /\ pc = "Merging"
    /\ steps' = Append(steps, "mergeSheetData")
    /\ LET r == mergeSheetData(sheetsByName)
       IN  IF r.threw
           THEN Failed(r.error) /\ UNCHANGED mergedData
           ELSE /\ pc' = "ClearingImages"
                /\ mergedData' = r.items
                /\ UNCHANGED <<exitCode, error>>
    /\ UNCHANGED <<config, fetchVars>>
    /\ UNCHANGED <<imageVars, outputVars, callVars>>

\* ClearImagesDir creating the directory when absent but unlinking nothing.
ClearImagesDirKeep ==
    /\ pc = "ClearingImages"
    /\ steps' = Append(steps, "downloadAllImages")
    /\ pc' = "StartingDownloads"
    /\ dirExists' = TRUE
    /\ UNCHANGED <<config, exitCode, error, fetchVars, mergedData, dirFiles,
                   downloadTasks, download, imageIdToFileName>>
    /\ UNCHANGED <<outputVars, callVars>>

\* Lines 319-335: the directory is cleared, or created when absent; a file
\* system error (readdirSync, unlinkSync or mkdirSync throws) ends the run
\* with some of the files removed.
ClearImagesDir ==
    /\ pc = "ClearingImages"
    /\ steps' = Append(steps, "downloadAllImages")
    /\ \/ /\ pc' = "StartingDownloads"
          /\ dirExists' = TRUE
          /\ dirFiles' = {}
          /\ UNCHANGED <<exitCode, error>>
       \/ /\ Failed("file system error")
          /\ \E left \in SUBSET dirFiles :
               /\ left # {} \/ ~dirExists
               /\ dirFiles' = left
          /\ UNCHANGED dirExists
    /\ UNCHANGED <<config, fetchVars, mergedData, downloadTasks, download,
                   imageIdToFileName>>
    /\ UNCHANGED <<outputVars, callVars>>

\* Lines 337-368: the identifiers to download.
imageIdsOf(itemsData) == collectImageIds(itemsData, 1, <<>>)

\* Lines 101-108 and 132: downloadImage resolves null for an empty
\* identifier, else issues its first request.
downloadImageEnter(fileId) ==
    IF ~Truthy(fileId) THEN <<"resolved", <<>>>> ELSE <<"get", 1>>

\* Lines 337-370: one task per collected identifier is started, then
\* downloadAllImages awaits them all.
StartDownloads ==
    /\ pc = "StartingDownloads"
    /\ LET imageIds == imageIdsOf(mergedData)
       IN  /\ downloadTasks' = imageIds
           /\ download' = [id \in ImageIds |->
                             IF id \in Range(imageIds) THEN downloadImageEnter(id)
                             ELSE <<"none">>]
    /\ pc' = "AwaitingDownloads"
    /\ UNCHANGED <<config, exitCode, error, steps, fetchVars, mergedData,
                   dirExists, dirFiles, imageIdToFileName>>
    /\ UNCHANGED <<outputVars, callVars>>

\* fs.createWriteStream(path): the file is created, or truncated.
createFile(files, filePath, writer) ==
    {f \in files : f.name # basename(filePath)}
        \cup {[name |-> basename(filePath), writer |-> writer]}

\* The response callback of the request in flight of an identifier's task;
\* a rejection is caught by the task's catch (line 366), which logs it.
DownloadResponse(id) ==
    /\ pc = "AwaitingDownloads"
    /\ download[id][1] = "get"
    /\ \E response \in ImgResponses :
         LET r == downloadImageOnResponse(response, download[id][2], outputPathOf(id))
         IN  /\ download' = [download EXCEPT ![id] =
                    CASE r.kind = "get" -> <<"get", r.n>>
                      [] r.kind = "write" -> <<"write", r.path>>
                      [] r.kind = "reject" -> <<"rejected">>]
             /\ dirFiles' = IF r.kind = "write" THEN createFile(dirFiles, r.path, id)
                            ELSE dirFiles
    /\ UNCHANGED <<config, pc, exitCode, error, steps, fetchVars, mergedData,
                   dirExists, downloadTasks, imageIdToFileName>>
    /\ UNCHANGED <<outputVars, callVars>>

\* Lines 151, 156, 161: a request fails (.on('error', reject)).
DownloadError(id) ==
    /\ pc = "AwaitingDownloads"
    /\ download[id][1] = "get"
    /\ download' = [download EXCEPT ![id] = <<"rejected">>]
    /\ UNCHANGED <<config, pc, exitCode, error, steps, fetchVars, mergedData,
                   dirExists, dirFiles, downloadTasks, imageIdToFileName>>
    /\ UNCHANGED <<outputVars, callVars>>

\* Lines 124-127 and 361-365: the stream finishes, downloadImage resolves
\* with the path and the task records the file name.
WriteFinish(id) ==
    /\ pc = "AwaitingDownloads"
    /\ download[id][1] = "write"
    /\ download' = [download EXCEPT ![id] = <<"resolved", download[id][2]>>]
    /\ imageIdToFileName' = ObjSet(imageIdToFileName, id, basename(download[id][2]))
    /\ UNCHANGED <<config, pc, exitCode, error, steps, fetchVars, mergedData,
                   dirExists, dirFiles, downloadTasks>>
    /\ UNCHANGED <<outputVars, callVars>>

\* Line 129: the stream fails; the file stays as far as it was written.
WriteError(id) ==
    /\ pc = "AwaitingDownloads"
    /\ download[id][1] = "write"
    /\ download' = [download EXCEPT ![id] = <<"rejected">>]
    /\ UNCHANGED <<config, pc, exitCode, error, steps, fetchVars, mergedData,
                   dirExists, dirFiles, downloadTasks, imageIdToFileName>>
    /\ UNCHANGED <<outputVars, callVars>>

\* Whether a task has settled (each task's promise is fulfilled, since its
\* catch swallows the rejection).
settled(id) == download[id][1] \in {"resolved", "rejected"}

\* allSettled without the await: main goes on at once.
allSettledNotAwaited == TRUE

\* Whether Promise.all(downloadTasks) is fulfilled, line 370.
allSettled == \A id \in Range(downloadTasks) : settled(id)

\* Lines 370-385 and 398: every task has settled, the references are
\* rewritten and downloadAllImages returns.
RewriteReferences ==
    /\ pc = "AwaitingDownloads"
    /\ allSettled
    /\ mergedData' = rewriteReferences(mergedData, imageIdToFileName)
    /\ pc' = "WritingCatalog"
    /\ UNCHANGED <<config, exitCode, error, steps, fetchVars>>
    /\ UNCHANGED <<imageVars, outputVars, callVars>>

\* JSON.stringify of an image reference: a string as it is; a function (an
\* inherited property the rewriting stored) makes the key disappear, and
\* Object.prototype is written as an empty object.
stringifyImage(image) ==
    IF ~IsInherited(image) THEN image
    ELSE IF image = Inherited("__proto__") THEN "{}" ELSE "<key omitted>"

\* JSON.stringify(mergedData, null, 2): the catalog in key order.
stringifyItems(itemsData) ==
    [i \in 1..Len(itemsData) |->
        <<itemsData[i][1],
          [itemsData[i][2] EXCEPT
              !.image = stringifyImage(@),
              !.sub = [j \in 1..Len(@) |->
                          [@[j] EXCEPT !.image = stringifyImage(@)]]]>>]

\* Lines 401-410: item.json is written; when writeFileSync throws the error
\* is rethrown to main's catch.
WriteItemJson ==
    /\ pc = "WritingCatalog"
    /\ steps' = Append(steps, "write item.json")
    /\ \/ /\ itemJson' = Append(itemJson, stringifyItems(mergedData))
          /\ pc' = "BuildingPlans"
          /\ UNCHANGED <<exitCode, error>>
       \/ /\ Failed("write error")
          /\ UNCHANGED itemJson
    /\ UNCHANGED <<config, fetchVars, mergedData, plansData, planJson>>
    /\ UNCHANGED <<imageVars, callVars>>

\* Lines 413 and 545-556, 571-574: fetchAndSavePlans looks the sponsorship
\* tab up and calls processPlanData; an error is logged and rethrown to
\* main's catch.
BuildPlans ==
    /\ pc = "BuildingPlans"
    /\ steps' = Append(steps, "processPlanData")
    /\ IF "sponsorship_plans" \notin DOMAIN sheetsByName
       THEN Failed("Sponsorship plans sheet not found") /\ UNCHANGED plansData
       ELSE LET r == processPlanData(sheetsByName["sponsorship_plans"], mergedData)
            IN  IF r.threw
                THEN Failed(r.error) /\ UNCHANGED plansData
                ELSE /\ plansData' = r.plans
                     /\ pc' = "WritingPlans"
                     /\ UNCHANGED <<exitCode, error>>
    /\ UNCHANGED <<config, fetchVars, mergedData, itemJson, planJson>>
    /\ UNCHANGED <<imageVars, callVars>>

\* Lines 559-570: plan.json is written; when writeFileSync throws the error
\* is rethrown to main's catch.
WritePlanJson ==
    /\ pc = "WritingPlans"
    /\ steps' = Append(steps, "write plan.json")
    /\ \/ /\ planJson' = Append(planJson, plansData)
          /\ pc' = "Summary"
          /\ UNCHANGED <<exitCode, error>>
       \/ /\ Failed("write error")
          /\ UNCHANGED planJson
    /\ UNCHANGED <<config, fetchVars, mergedData, itemJson, plansData>>
    /\ UNCHANGED <<imageVars, callVars>>

\* Lines 415-422: the summary is printed and the process exits with 0.
ExitSuccess ==
    /\ pc = "Summary"
    /\ pc' = "Done"
    /\ exitCode' = Append(exitCode, 0)
    /\ UNCHANGED <<config, error, steps, fetchVars, mergedData>>
    /\ UNCHANGED <<imageVars, outputVars, callVars>>

Next ==
    \/ StartUp
    \/ \E tab \in Tabs : FetchCsvResponse(tab)
    \/ \E tab \in Tabs : FetchCsvError(tab)
    \/ \E tab \in Tabs : FetchCsvEnd(tab)
    \/ \E tab \in Tabs : ParseCsvEnd(tab)
    \/ FetchAllSheetsJoin
    \/ MergeSheetData
    \/ ClearImagesDir
    \/ StartDownloads
    \/ \E id \in ImageIds : DownloadResponse(id)
    \/ \E id \in ImageIds : DownloadError(id)
    \/ \E id \in ImageIds : WriteFinish(id)
    \/ \E id \in ImageIds : WriteError(id)
    \/ RewriteReferences
    \/ WriteItemJson
    \/ BuildPlans
    \/ WritePlanJson
    \/ ExitSuccess

Spec == Init /\ [][Next]_vars

\* --------------------------------------------- one fetchCsv call, alone

\* The pipeline's variables while a single call is observed.
PipelineIdle ==
    /\ config = [file |-> "ok", spreadsheet_id |-> "SID", sheetsType |-> "object",
                 sheets |-> {}]
    /\ pc = "Idle"
    /\ exitCode = <<>>
    /\ error = ""
    /\ steps = <<>>
    /\ fetch = [t \in Tabs |-> <<"none">>]
    /\ sheets = [t \in Tabs |-> <<>>]
    /\ mergedData = <<>>
    /\ dirExists = FALSE
    /\ dirFiles = {}
    /\ downloadTasks = <<>>
    /\ download = [id \in ImageIds |-> <<"none">>]
    /\ imageIdToFileName = <<>>
    /\ itemJson = <<>>
    /\ plansData = <<>>
    /\ planJson = <<>>

\* fetchCsv(url) has been called (redirectCount defaults to 0): the call
\* records every request it issues and every response it is given.
InitFetchCsv ==
    /\ PipelineIdle
    /\ StoreIdle
    /\ downloadImageCall = NoCall
    /\ call = NoFunctionCall
    /\ fetchCsvCall =
         LET e == fetchCsvEnter(0)
         IN  [NoCall EXCEPT
                !.state = IF e.kind = "get" THEN <<"get", 0>> ELSE <<"rejected">>,
                !.requests = IF e.kind = "get" THEN 1 ELSE 0,
                !.error = e.error]

\* The response callback, lines 50-66.
FetchCsvCallResponse ==
    /\ fetchCsvCall.state[1] = "get"
    /\ \E response \in CsvResponses :
         LET r == fetchCsvOnResponse(response, fetchCsvCall.state[2])
         IN  fetchCsvCall' =
               [fetchCsvCall EXCEPT
                  !.responses = Append(@, response),
                  !.state = CASE r.kind = "get" -> <<"get", r.redirectCount>>
                              [] r.kind = "resolve" -> <<"body">>
                              [] r.kind = "reject" -> <<"rejected">>,
                  !.requests = IF r.kind = "get" THEN @ + 1 ELSE @,
                  !.error = r.error]
    /\ UNCHANGED <<pipelineVars, downloadImageCall, call, storeVars>>

\* Line 76: the request in flight fails.
FetchCsvCallError ==
    /\ fetchCsvCall.state[1] = "get"
    /\ fetchCsvCall' = [fetchCsvCall EXCEPT !.state = <<"rejected">>,
                                            !.error = "request error"]
    /\ UNCHANGED <<pipelineVars, downloadImageCall, call, storeVars>>

\* Lines 72-75: the body has been read, the call resolves with the text.
FetchCsvCallEnd ==
    /\ fetchCsvCall.state = <<"body">>
    /\ fetchCsvCall' = [fetchCsvCall EXCEPT !.state = <<"resolved">>]
    /\ UNCHANGED <<pipelineVars, downloadImageCall, call, storeVars>>

NextFetchCsv ==
    \/ FetchCsvCallResponse
    \/ FetchCsvCallError
    \/ FetchCsvCallEnd

SpecFetchCsv == InitFetchCsv /\ [][NextFetchCsv]_vars

\* ---------------------------------------- one downloadImage call, alone

\* downloadImage(fileId, outputPath) has been called for an identifier, or
\* for an empty one.
InitDownloadImage ==
    /\ PipelineIdle
    /\ StoreIdle
    /\ fetchCsvCall = NoCall
    /\ call = NoFunctionCall
    /\ \E fileId \in ImageIds \cup {""} :
         downloadImageCall =
           [NoCall EXCEPT
              !.fileId = fileId,
              !.state = downloadImageEnter(fileId),
              !.requests = IF downloadImageEnter(fileId)[1] = "get" THEN 1 ELSE 0]

\* The callback of the request in flight, lines 132-161 and 110-122.
DownloadImageCallResponse ==
    /\ downloadImageCall.state[1] = "get"
    /\ \E response \in CallImgResponses :
         LET r == downloadImageOnResponse(response, downloadImageCall.state[2],
                                          outputPathOf(downloadImageCall.fileId))
         IN  downloadImageCall' =
               [downloadImageCall EXCEPT
                  !.responses = Append(@, response),
                  !.state = CASE r.kind = "get" -> <<"get", r.n>>
                              [] r.kind = "write" -> <<"write", r.path>>
                              [] r.kind = "reject" -> <<"rejected">>,
                  !.requests = IF r.kind = "get" THEN @ + 1 ELSE @,
                  !.files = IF r.kind = "write"
                            THEN createFile(@, r.path, downloadImageCall.fileId)
                            ELSE @,
                  !.error = r.error]
    /\ UNCHANGED <<pipelineVars, fetchCsvCall, call, storeVars>>

\* Lines 151, 156, 161: the request in flight fails.
DownloadImageCallError ==
    /\ downloadImageCall.state[1] = "get"
    /\ downloadImageCall' = [downloadImageCall EXCEPT !.state = <<"rejected">>,
                                                      !.error = "request error"]
    /\ UNCHANGED <<pipelineVars, fetchCsvCall, call, storeVars>>

\* Lines 124-127: the stream finishes, the call resolves with the path.
DownloadImageCallFinish ==
    /\ downloadImageCall.state[1] = "write"
    /\ downloadImageCall' =
         [downloadImageCall EXCEPT !.state = <<"resolved", @[2]>>]
    /\ UNCHANGED <<pipelineVars, fetchCsvCall, call, storeVars>>

\* Line 129: the stream fails.
DownloadImageCallWriteError ==
    /\ downloadImageCall.state[1] = "write"
    /\ downloadImageCall' = [downloadImageCall EXCEPT !.state = <<"rejected">>,
                                                      !.error = "write error"]
    /\ UNCHANGED <<pipelineVars, fetchCsvCall, call, storeVars>>

NextDownloadImage ==
    \/ DownloadImageCallResponse
    \/ DownloadImageCallError
    \/ DownloadImageCallFinish
    \/ DownloadImageCallWriteError

SpecDownloadImage == InitDownloadImage /\ [][NextDownloadImage]_vars

\* ------------------------------------------------ mergeSheetData alone

\* A record of the primary tab with a code, a name and a quantity.
MergeRow(code, name, quantity) ==
    << <<COL_NUMBER, code>>, <<COL_ITEM, name>>, <<COL_QUANTITY, quantity>> >>

\* Records of the primary tab: two with the same code, one whose code is an
\* array index above it in text order, one without a code, one whose code
\* names the prototype slot of a plain object, one with a plain text code.
MergeRows ==
    {MergeRow("7", "Booth", "3"), MergeRow("7", "Stage", ""),
     MergeRow("10", "Logo", "1"), MergeRow("", "Ghost", "9"),
     MergeRow("__proto__", "Proto", "2"), MergeRow("x", "Talk", "1")}

\* A record of a satellite tab.
SatelliteRow(code, copy, description, deadline, order) ==
    << <<COL_NUMBER, code>>, <<COL_COPY, copy>>, <<COL_DESCRIPTION, description>>,
       <<COL_DEADLINE, deadline>>, <<COL_ORDER, order>> >>

\* What a satellite tab may hold: nothing, a record for code 7, a record
\* for a code the primary tab never has, or both.
SatelliteSheets ==
    {<<>>,
     <<SatelliteRow("7", "zh text", "en text", "May 1", "3")>>,
     <<SatelliteRow("99", "zh other", "en other", "June 1", "5")>>,
     <<SatelliteRow("99", "zh other", "en other", "June 1", "5"),
       SatelliteRow("7", "zh text", "en text", "May 1", "3")>>}

\* The parsed tabs mergeSheetData may be given: a primary tab of one to
\* MaxMergeRows records, and the satellite tabs global_description and
\* talent_recruitment present or not.
MergeInputs ==
    {[t \in {"items"} \cup present |->
         IF t = "items" THEN items
         ELSE IF t = "global_description" THEN globalDesc ELSE talentRec] :
       items \in UNION {[1..n -> MergeRows] : n \in 1..MaxMergeRows},
       globalDesc \in SatelliteSheets,
       talentRec \in {<<>>, <<SatelliteRow("7", "zh hire", "en hire", "", "3")>>},
       present \in SUBSET {"global_description", "talent_recruitment"}}

\* mergeSheetData(sheets) has been called.
InitMergeSheetData ==
    /\ PipelineIdle
    /\ StoreIdle
    /\ fetchCsvCall = NoCall
    /\ downloadImageCall = NoCall
    /\ \E input \in MergeInputs :
         call = [fn |-> "mergeSheetData", sheets |-> input, returned |-> FALSE,
                 result |-> [threw |-> FALSE, error |-> "", items |-> <<>>]]

\* Lines 257-317: the call returns the catalog, or throws.
MergeSheetDataCall ==
    /\ ~call.returned
    /\ call' = [call EXCEPT !.returned = TRUE,
                            !.result = mergeSheetData(call.sheets)]
    /\ UNCHANGED <<pipelineVars, fetchCsvCall, downloadImageCall, storeVars>>

NextMergeSheetData == MergeSheetDataCall

SpecMergeSheetData == InitMergeSheetData /\ [][NextMergeSheetData]_vars

\* ----------------------------------------------- extractSubItems alone

\* A record with sub-item columns for the indices 1..MaxSubIndex: the zh
\* name column is filled for the indices in zh, the en name column for
\* those in en, and the price column for every index.
SubItemRow(zh, en) ==
    [i \in 1..MaxSubIndex |->
        <<nameZhKey(i), IF i \in zh THEN "zh name " \o ToString(i) ELSE "">>]
    \o [i \in 1..MaxSubIndex |->
        <<nameEnKey(i), IF i \in en THEN "en name " \o ToString(i) ELSE "">>]
    \o [i \in 1..MaxSubIndex |-> <<priceKey(i), "NT$" \o ToString(i)>>]

\* The records extractSubItems may be given: names at the indices 1..k (in
\* zh only, in en only, or alternating), with or without a further name
\* two indices above k.
SubItemRows ==
    {SubItemRow({i \in named : kind = "zh" \/ (kind = "mixed" /\ i % 2 = 1)},
                {i \in named : kind = "en" \/ (kind = "mixed" /\ i % 2 = 0)}) :
       named \in {(1..k) \cup extra : k \in 0..MaxSubIndex,
                  extra \in {{}} \cup {{j} : j \in 3..MaxSubIndex}},
       kind \in {"zh", "en", "mixed"}}

\* extractSubItems(itemRow) has been called.
InitExtractSubItems ==
    /\ PipelineIdle
    /\ StoreIdle
    /\ fetchCsvCall = NoCall
    /\ downloadImageCall = NoCall
    /\ \E itemRow \in SubItemRows :
         call = [fn |-> "extractSubItems", itemRow |-> itemRow,
                 returned |-> FALSE,
                 result |-> [subItems |-> <<>>, warned |-> FALSE]]

\* Lines 214-255: the call returns the sub-items (and may have warned).
ExtractSubItemsCall ==
    /\ ~call.returned
    /\ call' = [call EXCEPT !.returned = TRUE,
                            !.result = extractSubItems(call.itemRow)]
    /\ UNCHANGED <<pipelineVars, fetchCsvCall, downloadImageCall, storeVars>>

NextExtractSubItems == ExtractSubItemsCall

SpecExtractSubItems == InitExtractSubItems /\ [][NextExtractSubItems]_vars

\* ----------------------------------------------- processPlanData alone

\* What a header cell of a tier column may hold: nothing, a blank, one of
\* the four curated tier names, a name, the same name padded or in lower case, a
\* name that reads as an array index, and a name that a plain object
\* inherits as a property.
TierCells ==
    {"", " ", TIER_NAVIGATOR, TIER_DEEP_CULTIVATION, TIER_VISIONARY,
     TIER_NEW_SPROUT, "Gold", " Gold ", "gold", "2", "constructor"}

\* The header records: an empty first cell, the price label, then the
\* tier cells.
PlanHeaderRows ==
    {PlanRow(<<"", "price">> \o tiers) :
        tiers \in UNION {[1..n -> TierCells] : n \in 1..MaxTierColumns}}

\* A record with the given first cell, an empty second cell and the first n
\* of the given cells in the tier columns.
PlanRowOf(lead, cells, n) == PlanRow(<<lead, "">> \o SubSeq(cells, 1, n))

\* The sponsorship tabs processPlanData may be given: no record, a header
\* record alone, header and price record, or those followed by records
\* with a cell of its own in each tier column: a category header and a
\* benefit; a record without lead text, a text ending in the exposure
\* suffix and a benefit no Item is named after, its cells blank; a record
\* with a blank lead text, one whose lead text a plain object inherits as a
\* property, and twice the same benefit, once padded.
PlanInputs ==
    LET some == <<" 2 ", "1", "3", "4">>
        none == <<"", " ", "", "">>
        price(n) == PlanRowOf("", <<"$100", "$200", "", "$400">>, n)
        bodies(n) ==
            {<<>>,
             <<PlanRowOf(CAT_VENUE, none, n), PlanRowOf("Booth", some, n)>>,
             <<PlanRowOf("", some, n), PlanRowOf(CAT_OTHER_EXPOSURE, some, n),
               PlanRowOf("Lunch", none, n)>>,
             <<PlanRowOf(" ", some, n), PlanRowOf("constructor", some, n),
               PlanRowOf(" Booth ", none, n), PlanRowOf("Booth", some, n)>>}
    IN  {<<>>}
        \cup {<<h>> : h \in PlanHeaderRows}
        \cup UNION {{<<h, price(Len(h) - 2)>> \o b : b \in bodies(Len(h) - 2)} :
                      h \in PlanHeaderRows}

\* The catalogs processPlanData may be given: empty, the Item Booth, or one
\* with two Items named Booth (codes 7 and x, in this order of the
\* catalog's keys), an Item named by a text ending in the exposure suffix
\* and an Item without a name.
PlanCatalogs ==
    {<<>>,
     mergeSheetData([t \in {"items"} |-> <<ItemRowA>>]).items,
     mergeSheetData([t \in {"items"} |->
         <<MergeRow("x", "Booth", ""), MergeRow("7", "Booth", "3"),
           MergeRow("10", CAT_OTHER_EXPOSURE, ""), MergeRow("3", "", "")>>]).items}

\* processPlanData(planSheet, itemsData) has been called.
InitProcessPlanData ==
    /\ PipelineIdle
    /\ StoreIdle
    /\ fetchCsvCall = NoCall
    /\ downloadImageCall = NoCall
    /\ \E planSheet \in PlanInputs, itemsData \in PlanCatalogs :
         call = [fn |-> "processPlanData", planSheet |-> planSheet,
                 itemsData |-> itemsData, returned |-> FALSE,
                 result |-> [threw |-> FALSE, error |-> "", plans |-> <<>>]]

\* Lines 435-543: the call returns the plans, or throws.
ProcessPlanDataCall ==
    /\ ~call.returned
    /\ call' = [call EXCEPT
                  !.returned = TRUE,
                  !.result = processPlanData(call.planSheet, call.itemsData)]
    /\ UNCHANGED <<pipelineVars, fetchCsvCall, downloadImageCall, storeVars>>

NextProcessPlanData == ProcessPlanDataCall

SpecProcessPlanData == InitProcessPlanData /\ [][NextProcessPlanData]_vars

\* ------------------------------------------ the interested-items store
\* src/src/utils/plan-helper.ts and src/src/utils/local-storage.ts, in a
\* browser (window is defined) whose localStorage accepts every write.

\* A JavaScript number written in halves (1 is 2 halves, 0.5 is 1 half),
\* and the values NaN, null and undefined.
Halves(h) == [t |-> "number", halves |-> h]
Num(n) == Halves(2 * n)
NaN == [t |-> "NaN"]
Null == [t |-> "null"]
Undefined == [t |-> "undefined"]

\* a < b for two JavaScript numbers: false when one of them is NaN.
LessThan(a, b) == a.t = "number" /\ b.t = "number" /\ a.halves < b.halves

\* v != null
NotNullish(v) == v.t \notin {"null", "undefined"}

\* JSON.parse(JSON.stringify(items)): NaN is written as null (the other
\* fields of an item are strings and no function reads them).
jsonItems(items) ==
    [i \in 1..Len(items) |->
        [items[i] EXCEPT
            !.quantity = IF @.t = "NaN" THEN Null ELSE @,
            !.maxQuantity = IF @.t = "NaN" THEN Null ELSE @]]

\* The items a value of localStorage parses to.
ItemsOf(storage) == IF storage = <<>> THEN <<>> ELSE storage[1]

\* getInterestedItems()
getInterestedItems == ItemsOf(localStorage)

\* findIndexById finding nothing.
findIndexNone(items, id) == -1

\* items.findIndex(i => i.id === id), 0-based, -1 when there is none.
findIndexById(items, id) ==
    LET found == {i \in 1..Len(items) : items[i].id = id}
    IN  IF found = {} THEN -1
        ELSE (CHOOSE i \in found : \A k \in found : i <= k) - 1

\* The ids of the model's items.
StoreItemIds == {"a", "b"}

\* The items addInterestedItem may be given: without a quantity or with
\* quantity 1; maxQuantity left out, null (unlimited) or a number.
InterestedItems ==
    {[id |-> id, quantity |-> q, maxQuantity |-> m] :
        id \in StoreItemIds, q \in {Undefined, Num(1)},
        m \in {Undefined, Null, Num(MaxQuantity)}}

\* The numbers updateItemQuantity may be given: from -1 to one above
\* MaxQuantity in steps of one half, and NaN.
Quantities == {NaN} \cup {Halves(h) : h \in (-2)..(2 * (MaxQuantity + 1))}

\* The call returns: storeCall records it.
Returns(fn, arg, result, events) ==
    storeCall' = [fn |-> fn, arg |-> arg, result |-> result,
                  before |-> localStorage, events |-> events]

\* plan-helper.ts, addInterestedItem(item).
AddInterestedItem ==
    /\ \E item \in InterestedItems :
          LET items == getInterestedItems
          IN  IF findIndexById(items, item.id) = -1
              THEN /\ localStorage' = <<jsonItems(Append(items, item))>>
                   /\ Returns("addInterestedItem", item, TRUE, 1)
              ELSE /\ UNCHANGED localStorage
                   /\ Returns("addInterestedItem", item, FALSE, 0)
    /\ UNCHANGED <<pipelineVars, fetchCsvCall, downloadImageCall, call>>

\* local-storage.ts, addInterestedItem(item): its items have neither
\* quantity nor maxQuantity, and before the write it pushes on
\* window.dataLayer, which the page has defined or not (a TypeError, caught:
\* the call returns false).
AddInterestedItemTracked ==
    /\ \E id \in StoreItemIds, dataLayer \in BOOLEAN :
          LET items == getInterestedItems
              item == [id |-> id, quantity |-> Undefined, maxQuantity |-> Undefined]
          IN  IF findIndexById(items, item.id) = -1 /\ dataLayer
              THEN /\ localStorage' = <<jsonItems(Append(items, item))>>
                   /\ Returns("addInterestedItem", item, TRUE, 1)
              ELSE /\ UNCHANGED localStorage
                   /\ Returns("addInterestedItem", item, FALSE, 0)
    /\ UNCHANGED <<pipelineVars, fetchCsvCall, downloadImageCall, call>>

\* removeInterestedItem(itemId): the filtered list is written and the event
\* dispatched, the id stored or not.
RemoveInterestedItem ==
    /\ \E itemId \in StoreItemIds :
          /\ localStorage' =
                <<SelectSeq(getInterestedItems, LAMBDA item : item.id # itemId)>>
          /\ Returns("removeInterestedItem", itemId, TRUE, 1)
    /\ UNCHANGED <<pipelineVars, fetchCsvCall, downloadImageCall, call>>

\* clearInterestedItems()
ClearInterestedItems ==
    /\ localStorage' = <<>>
    /\ Returns("clearInterestedItems", <<>>, TRUE, 1)
    /\ UNCHANGED <<pipelineVars, fetchCsvCall, downloadImageCall, call>>

\* updateItemQuantity(itemId, quantity)
UpdateItemQuantity ==
    /\ \E itemId \in StoreItemIds, quantity \in Quantities :
          LET items == getInterestedItems
              index == findIndexById(items, itemId)
              arg == <<itemId, quantity>>
          IN  IF index = -1
              THEN /\ UNCHANGED localStorage
                   /\ Returns("updateItemQuantity", arg, FALSE, 0)
              ELSE IF \/ LessThan(quantity, Num(0))
                      \/ /\ NotNullish(items[index + 1].maxQuantity)
                         /\ LessThan(items[index + 1].maxQuantity, quantity)
              THEN /\ UNCHANGED localStorage
                   /\ Returns("updateItemQuantity", arg, FALSE, 0)
              ELSE IF quantity = Num(0)
              THEN /\ localStorage' =
                         <<SelectSeq(items, LAMBDA item : item.id # itemId)>>
                   /\ Returns("updateItemQuantity", arg, TRUE, 1)
              ELSE /\ localStorage' =
                         <<jsonItems([items EXCEPT ![index + 1].quantity = quantity])>>
                   /\ Returns("updateItemQuantity", arg, TRUE, 1)
    /\ UNCHANGED <<pipelineVars, fetchCsvCall, downloadImageCall, call>>

\* The store starts empty.
InitInterestedItems ==
    /\ PipelineIdle
    /\ StoreIdle
    /\ fetchCsvCall = NoCall
    /\ downloadImageCall = NoCall
    /\ call = NoFunctionCall

NextInterestedItems ==
    \/ AddInterestedItem
    \/ AddInterestedItemTracked
    \/ RemoveInterestedItem
    \/ ClearInterestedItems
    \/ UpdateItemQuantity

SpecInterestedItems == InitInterestedItems /\ [][NextInterestedItems]_vars

\* ================================================================ claims

\* The image references of a catalog, record by record: each item's own
\* reference followed by those of its sub-items.
RECURSIVE ImageRefSeq(_)
ImageRefSeq(itemsData) ==
    IF Len(itemsData) = 0 THEN <<>>
    ELSE LET item == itemsData[1][2]
         IN  <<item.image>> \o [j \in 1..Len(item.sub) |-> item.sub[j].image]
               \o ImageRefSeq(Tail(itemsData))

\* The catalog as mergeSheetData returned it, before any rewriting.
OriginalRefs == ImageRefSeq(mergeSheetData(sheetsByName).items)

IsPrefix(s, t) == Len(s) <= Len(t) /\ \A i \in 1..Len(s) : s[i] = t[i]

StepOrder ==
    <<"fetchAllSheets", "mergeSheetData", "downloadAllImages", "write item.json",
      "processPlanData", "write plan.json">>

\* The positions of main after the references were rewritten.
AfterRewrite == {"WritingCatalog", "BuildingPlans", "WritingPlans", "Summary", "Done"}

HasPath(id) == download[id][1] \in {"write", "resolved"}

\* C1: main's steps happen in the fixed order fetch, merge, harvest images,
\* write item.json, build plans, write plan.json, exit 0; merging starts only
\* when every configured tab's fetch task is done; item.json is written only
\* when every download task has settled and no reference to a downloaded
\* identifier is left bare; plan building starts only after item.json was
\* written; each JSON file is written at most once; status 0 is reported
\* only after both files were written.
C1_PipelineOrder ==
    /\ IsPrefix(steps, StepOrder)
    /\ "mergeSheetData" \in Range(steps) =>
          \A tab \in config.sheets : fetch[tab] = <<"done">>
    /\ itemJson # <<>> =>
          \A id \in Range(downloadTasks) :
             /\ download[id][1] \in {"resolved", "rejected"}
             /\ download[id][1] = "resolved" =>
                   id \notin Range(ImageRefSeq(itemJson[1]))
    /\ "processPlanData" \in Range(steps) => Len(itemJson) = 1
    /\ Len(itemJson) <= 1
    /\ Len(planJson) <= 1
    /\ 0 \in Range(exitCode) =>
          /\ Len(itemJson) = 1
          /\ Len(planJson) = 1
          /\ steps = StepOrder

\* A run that ended with status 0 after three tabs were fetched and two
\* images were downloaded concurrently.
C1_Witness ==
    /\ pc = "Done"
    /\ exitCode = <<0>>
    /\ config.sheets = Tabs
    /\ Len(downloadTasks) >= 2
    /\ \E id \in Range(downloadTasks) : download[id][1] = "resolved"

\* The image directory as it was before the run.
DirUntouched ==
    \/ ~dirExists /\ dirFiles = {}
    \/ dirExists /\ dirFiles = OldFiles

\* C2: when the fetch or the parse of one configured tab has failed, then
\* (whatever the other tabs' tasks have done) mergeSheetData was not called,
\* the image directory is as before the run, no download was started,
\* neither JSON file was written, and the process has exited with status 1.
C2_FetchAllOrNothing ==
    (\E tab \in Tabs : fetch[tab] = <<"rejected">>) =>
       /\ "mergeSheetData" \notin Range(steps)
       /\ mergedData = <<>>
       /\ DirUntouched
       /\ downloadTasks = <<>>
       /\ itemJson = <<>>
       /\ planJson = <<>>
       /\ pc = "Failed"
       /\ exitCode = <<1>>

\* One tab's task failed after another tab's task was done and while a
\* third one was still in flight.
C2_Witness ==
    /\ \E t1, t2, t3 \in Tabs :
         /\ fetch[t1] = <<"rejected">>
         /\ fetch[t2] = <<"done">>
         /\ fetch[t3][1] = "get"
    /\ pc = "Failed"

\* The sponsorship tab is absent from the fetched tabs, or has no record.
PlanTabMissingOrEmpty ==
    \/ "sponsorship_plans" \notin DOMAIN sheetsByName
    \/ sheets["sponsorship_plans"] = <<>>

\* C3: an error in any step ends the run in the failed outcome with exit
\* status 1 and nothing else; when plan building (or the write of
\* plan.json) fails, item.json holds what was written before and plan.json
\* was not written; with the sponsorship tab absent or empty plan.json is
\* never written, status 0 is never reported, and plan building ends the
\* run with status 1.
C3_FailureNoRollback ==
    /\ pc = "Failed" <=> exitCode = <<1>>
    /\ error # "" => pc = "Failed"
    /\ Len(exitCode) <= 1
    /\ 0 \in Range(exitCode) => pc = "Done"
    /\ pc = "Failed" /\ "processPlanData" \in Range(steps) =>
          /\ Len(itemJson) = 1
          /\ itemJson[1] = stringifyItems(mergedData)
          /\ planJson = <<>>
    /\ PlanTabMissingOrEmpty =>
          /\ planJson = <<>>
          /\ 0 \notin Range(exitCode)
          /\ "processPlanData" \in Range(steps) => pc = "Failed"

\* Plan building failed on a fetched but empty sponsorship tab, after
\* item.json was written.
C3_Witness ==
    /\ pc = "Failed"
    /\ steps # <<>>
    /\ steps[Len(steps)] = "processPlanData"
    /\ fetch["sponsorship_plans"] = <<"done">>
    /\ sheets["sponsorship_plans"] = <<>>
    /\ Len(itemJson) = 1
    /\ error = "Plan sheet is empty or not found"

\* A response that fetchCsv is to follow: 301 or 307 with a Location that
\* begins with https://.
SecureRedirect(response) ==
    /\ response.statusCode \in {301, 307}
    /\ response.location # <<>>
    /\ response.location[1] = "https://"

\* C4: a fetchCsv call issues at most 6 requests; after 5 followed
\* redirects the 6th request has been issued (it is in flight, or it failed
\* as a request); 5 redirects followed by a 200
\* response resolve; 6 redirects reject with the too-many-redirects error,
\* no 7th request being issued.
C4_RedirectBound ==
    LET c == fetchCsvCall
        k == Len(c.responses)
        Redirects(n) == \A i \in 1..n : SecureRedirect(c.responses[i])
    IN  /\ c.requests <= 6
        /\ k <= c.requests
        /\ k = 5 /\ Redirects(5) =>
              /\ c.requests = 6
              /\ \/ c.state = <<"get", 5>>
                 \/ c.state = <<"rejected">> /\ c.error = "request error"
        /\ k = 6 /\ Redirects(5) /\ c.responses[6].statusCode = 200 =>
              c.state[1] \in {"body", "resolved"} /\ c.requests = 6
        /\ k = 6 /\ Redirects(6) =>
              /\ c.state = <<"rejected">>
              /\ c.error = "Too many redirects"
              /\ c.requests = 6

\* Six redirects in a row were answered to one call.
C4_Witness ==
    /\ Len(fetchCsvCall.responses) = 6
    /\ \A i \in 1..6 : SecureRedirect(fetchCsvCall.responses[i])
    /\ fetchCsvCall.state = <<"rejected">>

\* C5: every request of a fetchCsv call after the first follows a 301 or
\* 307 response with an https Location; any other response that is not a
\* 200 is the last one: the call is rejected and no request follows it.
C5_FollowOnlySecureRedirects ==
    LET c == fetchCsvCall
        k == Len(c.responses)
    IN  /\ c.requests <=
              1 + Cardinality({i \in 1..k : SecureRedirect(c.responses[i])})
        /\ \A i \in 1..k :
              ~SecureRedirect(c.responses[i]) /\ c.responses[i].statusCode # 200 =>
                 /\ i = k
                 /\ c.state = <<"rejected">>
                 /\ c.requests = k
        /\ c.state = <<"rejected">> /\ c.error = "request error" =>
              c.requests = k + 1

\* A 302 response ended a call that had followed a redirect before.
C5_Witness ==
    LET c == fetchCsvCall
    IN  /\ Len(c.responses) = 2
        /\ c.responses[2].statusCode = 302
        /\ c.state = <<"rejected">>
        /\ c.requests = 2

\* C6: a downloadImage call issues at most three requests; a redirect
\* status on the third response rejects the call with no file written; a
\* redirect response without Location, first or second, rejects the call
\* with no file written and no further request.
C6_TwoHopCeiling ==
    LET c == downloadImageCall
        k == Len(c.responses)
    IN  /\ c.requests <= 3
        /\ k <= c.requests
        /\ k = 3 /\ c.responses[3].statusCode \in {301, 302, 303, 307} =>
              c.state = <<"rejected">> /\ c.files = {} /\ c.requests = 3
        /\ \A i \in 1..k :
              /\ i <= 2
              /\ c.responses[i].statusCode \in {301, 302, 303, 307}
              /\ c.responses[i].location = <<>>
              => i = k /\ c.state = <<"rejected">> /\ c.files = {} /\ c.requests = i

\* A third response with a redirect status ended the call.
C6_Witness ==
    LET c == downloadImageCall
    IN  /\ Len(c.responses) = 3
        /\ c.responses[3].statusCode = 302
        /\ c.responses[3].location # <<>>
        /\ c.state = <<"rejected">>

\* C7: once downloadAllImages is past its clearing step (a download task
\* exists, or main stands after it), the image directory exists and every
\* file in it was written by a download task of this run.
C7_DirectoryClearedFirst ==
    (\/ pc \in {"StartingDownloads", "AwaitingDownloads"} \cup AfterRewrite
     \/ \E id \in ImageIds : download[id][1] # "none"
     \/ "write item.json" \in Range(steps))
    => /\ dirExists
       /\ \A f \in dirFiles : f.writer \in Range(downloadTasks)

\* The run ended with a.png in the directory, written by the task of
\* identifier a (a file of that name was there before one of the runs).
C7_Witness ==
    /\ pc = "Done"
    /\ [name |-> "a.png", writer |-> "a"] \in dirFiles
    /\ Cardinality(dirFiles) >= 2

\* C8: while the downloads run, the tasks started are exactly the distinct
\* non-empty image references of the catalog, one task each.
C8_OneTaskPerIdentifier ==
    pc = "AwaitingDownloads" =>
       LET refs == ImageRefSeq(mergedData)
       IN  /\ \A i, j \in 1..Len(downloadTasks) :
                 downloadTasks[i] = downloadTasks[j] => i = j
           /\ Range(downloadTasks) = Range(refs) \ {""}
           /\ \A id \in ImageIds :
                 download[id][1] # "none" <=> id \in Range(downloadTasks)

\* A catalog in which two records reference the same identifier and one
\* reference is empty.
C8_Witness ==
    /\ pc = "AwaitingDownloads"
    /\ LET refs == ImageRefSeq(mergedData)
       IN  /\ \E i, j \in 1..Len(refs) : i # j /\ refs[i] = refs[j] /\ refs[i] # ""
           /\ \E k \in 1..Len(refs) : refs[k] = ""

\* C9: after downloadAllImages, whichever downloads failed, main goes on
\* (the harvesting step itself never fails the run once a task exists);
\* every reference whose identifier was downloaded is the file name,
\* identifier + extension, and every reference whose identifier failed is
\* the bare identifier.
C9_FailureIsolation ==
    /\ pc = "Failed" /\ steps # <<>> /\ steps[Len(steps)] = "downloadAllImages" =>
          downloadTasks = <<>>
    /\ pc \in AfterRewrite =>
          LET now == ImageRefSeq(mergedData)
          IN  \A i \in 1..Len(OriginalRefs) :
                 LET id == OriginalRefs[i]
                 IN  id # "" =>
                       /\ download[id][1] = "resolved" =>
                             now[i] = basename(download[id][2])
                       /\ download[id][1] = "rejected" => now[i] = id

\* C10: two tasks never write the same path, the file of a task is its own
\* (no other task replaced it); after the rewriting, references to the same
\* identifier are equal, and references to different downloaded
\* identifiers differ.
C10_FilenameByIdentifier ==
    /\ \A id1, id2 \in Range(downloadTasks) :
          id1 # id2 /\ HasPath(id1) /\ HasPath(id2) =>
             download[id1][2] # download[id2][2]
    /\ \A id \in Range(downloadTasks) :
          HasPath(id) =>
             [name |-> basename(download[id][2]), writer |-> id] \in dirFiles
    /\ pc \in AfterRewrite =>
          LET now == ImageRefSeq(mergedData)
          IN  \A i, j \in 1..Len(OriginalRefs) :
                 /\ OriginalRefs[i] = OriginalRefs[j] => now[i] = now[j]
                 /\ (/\ OriginalRefs[i] # OriginalRefs[j]
                     /\ OriginalRefs[i] # "" /\ OriginalRefs[j] # ""
                     /\ download[OriginalRefs[i]][1] = "resolved"
                     /\ download[OriginalRefs[j]][1] = "resolved")
                    => now[i] # now[j]

\* Two records share identifier a, a third references b; both were
\* downloaded with the same extension and the references rewritten.
C10_Witness ==
    /\ pc = "WritingCatalog"
    /\ download["a"] = <<"resolved", <<IMAGES_DIR, "a.png">>>>
    /\ download["b"] = <<"resolved", <<IMAGES_DIR, "b.png">>>>
    /\ \E i, j \in 1..Len(OriginalRefs) :
          i # j /\ OriginalRefs[i] = "a" /\ OriginalRefs[j] = "a"

\* The extension the specification gives a declared content type: the five
\* listed types have their own, every other or absent type has .jpg.
SpecifiedExtension(contentType) ==
    CASE contentType = "image/jpeg" -> ".jpg"
      [] contentType = "image/png" -> ".png"
      [] contentType = "image/gif" -> ".gif"
      [] contentType = "image/webp" -> ".webp"
      [] contentType = "image/svg+xml" -> ".svg"
      [] OTHER -> ".jpg"

\* C11: once a downloadImage call has had its 200 response, the file it
\* writes is <outputDir>/<identifier><extension>, the extension being the
\* one the table gives the declared content type and .jpg for every absent
\* or unrecognised type, and that path is what the call resolves with.
C11_ExtensionAndPath ==
    LET c == downloadImageCall
    IN  c.state[1] \in {"write", "resolved"} /\ c.responses # <<>> =>
          LET last == c.responses[Len(c.responses)]
              expected == <<IMAGES_DIR,
                            c.fileId \o SpecifiedExtension(last.contentType)>>
          IN  /\ c.state[2] = expected
              /\ c.files = {[name |-> basename(expected), writer |-> c.fileId]}

\* A call resolved with <identifier>.jpg after a 200 response that declared
\* an unrecognised content type.
C11_Witness ==
    LET c == downloadImageCall
    IN  /\ c.state = <<"resolved", <<IMAGES_DIR, "a.jpg">>>>
        /\ c.responses # <<>>
        /\ c.responses[Len(c.responses)].contentType = "image/png; charset=binary"

\* The file names of the downloaded identifiers, listed in the order the
\* tasks were started (not the order they finished in).
FileNamesInTaskOrder ==
    LET done == SelectSeq(downloadTasks, LAMBDA id : download[id][1] = "resolved")
    IN  [i \in 1..Len(done) |-> <<done[i], basename(download[done[i]][2])>>]

\* C12: the content written to item.json is a function of the fetched tabs
\* and of each identifier's download outcome, and the content written to
\* plan.json a function of the fetched tabs, whatever the order the
\* concurrent fetches and downloads finished in.
C12_Deterministic ==
    /\ itemJson # <<>> =>
          itemJson[1] =
             stringifyItems(rewriteReferences(mergeSheetData(sheetsByName).items,
                                              FileNamesInTaskOrder))
    /\ planJson # <<>> =>
          planJson[1] =
             processPlanData(sheets["sponsorship_plans"],
                             mergeSheetData(sheetsByName).items).plans

\* Both files were written in a run whose downloads finished in another
\* order than they were started in.
C12_Witness ==
    /\ pc = "Done"
    /\ Len(planJson) = 1
    /\ Len(imageIdToFileName) = 2
    /\ Keys(imageIdToFileName) # Keys(FileNamesInTaskOrder)

\* C13: with a configuration that cannot be read or parsed, or whose
\* spreadsheet_id is missing or no string, or whose sheets mapping is
\* missing or no object, the script does nothing but exit with status 1: no
\* request is issued, no step of main is started, the image directory is as
\* before and no file is written.
C13_BadConfigAbortsFirst ==
    ~(/\ config.file = "ok"
      /\ config.spreadsheet_id = "SID"
      /\ config.sheetsType = "object")
    => /\ pc \in {"Idle", "Failed"}
       /\ pc = "Failed" => exitCode = <<1>>
       /\ pc = "Idle" => exitCode = <<>>
       /\ \A tab \in Tabs : fetch[tab] = <<"none">>
       /\ steps = <<>>
       /\ DirUntouched
       /\ downloadTasks = <<>>
       /\ \A id \in ImageIds : download[id] = <<"none">>
       /\ itemJson = <<>>
       /\ planJson = <<>>

\* The script has exited on a configuration whose spreadsheet_id is a
\* number although its sheets mapping lists a tab.
C13_Witness ==
    /\ pc = "Failed"
    /\ config.file = "ok"
    /\ config.spreadsheet_id = NotAString
    /\ config.sheets = {"items"}
    /\ error = "Configuration validation failed"

\* The primary tab is absent from the fetched tabs, or has no record.
ItemsTabMissingOrEmpty ==
    \/ "items" \notin DOMAIN sheetsByName
    \/ sheets["items"] = <<>>

\* C14: once main has called mergeSheetData, the call has thrown its
\* explicit error exactly when the primary tab is absent or has no record;
\* then the run has failed with nothing written (image directory as before,
\* no download, no JSON file), and otherwise a catalog was returned and the
\* run went on.
C14_MergeFailsOnlyWithoutItems ==
    "mergeSheetData" \in Range(steps) =>
       /\ ItemsTabMissingOrEmpty =>
             /\ pc = "Failed"
             /\ exitCode = <<1>>
             /\ error = "Items sheet is empty or not found"
             /\ steps = <<"fetchAllSheets", "mergeSheetData">>
             /\ mergedData = <<>>
             /\ DirUntouched
             /\ downloadTasks = <<>>
             /\ itemJson = <<>>
             /\ planJson = <<>>
       /\ ~ItemsTabMissingOrEmpty =>
             /\ ~(pc = "Failed" /\ steps[Len(steps)] = "mergeSheetData")
             /\ error # "Items sheet is empty or not found"

\* The run failed in mergeSheetData on a fetched primary tab without
\* records, the image directory holding files of an earlier run.
C14_Witness ==
    /\ pc = "Failed"
    /\ error = "Items sheet is empty or not found"
    /\ fetch["items"] = <<"done">>
    /\ sheets["items"] = <<>>
    /\ dirFiles = OldFiles

\* The non-empty item codes of the records of a tab.
CodesOf(sheet) == {RowGet(sheet[i], COL_NUMBER) : i \in 1..Len(sheet)} \ {""}

\* Whether a satellite tab is present and has a record for the code.
SatelliteHas(tabs, tab, code) ==
    tab \in DOMAIN tabs /\ code \in CodesOf(tabs[tab])

\* C15: the catalog mergeSheetData returns has one Item per non-empty code
\* of the primary tab and no other; a code that only a satellite tab has
\* creates nothing; an Item whose code has no record in a satellite tab has
\* empty strings for that category's texts and 0 for its ordering hint.
C15_CatalogKeys ==
    call.fn = "mergeSheetData" /\ call.returned =>
       LET items == call.result.items
           codes == CodesOf(call.sheets["items"])
       IN  /\ ~call.result.threw
           /\ Range(Keys(items)) = codes
           /\ Len(items) = Cardinality(codes)
           /\ \A i \in 1..Len(items) :
                 LET code == items[i][1]
                     item == items[i][2]
                 IN  /\ ~SatelliteHas(call.sheets, "global_description", code) =>
                           /\ item.global_description_zh = ""
                           /\ item.global_description_en = ""
                           /\ item.deadline = ""
                     /\ ~SatelliteHas(call.sheets, "talent_recruitment", code) =>
                           /\ item.talent_recruitment_zh = ""
                           /\ item.talent_recruitment_en = ""
                           /\ item.talent_recruitment_order = 0
                     /\ ~SatelliteHas(call.sheets, "brand_exposure", code) =>
                           /\ item.brand_exposure_zh = ""
                           /\ item.brand_exposure_en = ""
                           /\ item.brand_exposure_order = 0
                     /\ ~SatelliteHas(call.sheets, "product_promotion", code) =>
                           /\ item.product_promotion_zh = ""
                           /\ item.product_promotion_en = ""
                           /\ item.product_promotion_order = 0

\* The call returned a catalog of two Items for a primary tab with codes 7
\* and 10, the satellite tab holding a record for 7 and one for a code the
\* primary tab lacks.
C15_Witness ==
    /\ call.fn = "mergeSheetData"
    /\ call.returned
    /\ Keys(call.result.items) = <<"7", "10">>
    /\ "global_description" \in DOMAIN call.sheets
    /\ CodesOf(call.sheets["global_description"]) = {"7", "99"}
    /\ call.result.items[1][2].global_description_zh = "zh text"
    /\ call.result.items[2][2].global_description_zh = ""

\* Whether the record carries a localized name at the sub-item index.
HasSubItemName(itemRow, i) ==
    RowGet(itemRow, nameZhKey(i)) # "" \/ RowGet(itemRow, nameEnKey(i)) # ""

\* The length k of the contiguous prefix: k + 1 is the first index at which
\* both localized names are empty.
NamedPrefix(itemRow) ==
    CHOOSE k \in 0..MaxSubIndex :
       /\ \A i \in 1..k : HasSubItemName(itemRow, i)
       /\ k < MaxSubIndex => ~HasSubItemName(itemRow, k + 1)

\* Whether the sub-items are those of the indices 1..k of the record, in
\* index order.
IsSubItemPrefix(subItems, itemRow, k) ==
    /\ Len(subItems) = k
    /\ \A i \in 1..k :
          /\ subItems[i].name_zh = RowGet(itemRow, nameZhKey(i))
          /\ subItems[i].name_en = RowGet(itemRow, nameEnKey(i))
          /\ subItems[i].price = RowGet(itemRow, priceKey(i))
          /\ subItems[i].name_zh # "" \/ subItems[i].name_en # ""

\* C16, as stated: extractSubItems returns exactly the sub-items of the
\* indices 1..k, k + 1 being the first index with both names empty.
C16_ContiguousPrefix ==
    call.fn = "extractSubItems" /\ call.returned =>
       IsSubItemPrefix(call.result.subItems, call.itemRow,
                       NamedPrefix(call.itemRow))

\* C16, amended: extractSubItems returns exactly the sub-items of the
\* indices 1..min(k, 50), k + 1 being the first index with both names
\* empty; names above a gap are ignored, index order is kept and every
\* sub-item returned has a name.
C16_ContiguousPrefixUpToLimit ==
    call.fn = "extractSubItems" /\ call.returned =>
       LET k == NamedPrefix(call.itemRow)
       IN  IsSubItemPrefix(call.result.subItems, call.itemRow,
                           IF k <= MAX_SUB_ITEMS THEN k ELSE MAX_SUB_ITEMS)

\* The call returned two sub-items for a record with names (one zh, one en)
\* at 1 and 2, none at 3 and one at 4.
C16_Witness ==
    /\ call.fn = "extractSubItems"
    /\ call.returned
    /\ NamedPrefix(call.itemRow) = 2
    /\ HasSubItemName(call.itemRow, 4)
    /\ Len(call.result.subItems) = 2
    /\ call.result.subItems[1].name_en = ""
    /\ call.result.subItems[2].name_zh = ""

\* C17: the loop of extractSubItems ends at an index of at most 51, it
\* returns at most 50 sub-items, and it warns exactly when every index
\* 1..50 carries a name.
C17_SubItemLimit ==
    call.fn = "extractSubItems" /\ call.returned =>
       /\ extractSubItemsFrom(call.itemRow, 1, <<>>).index <= MAX_SUB_ITEMS + 1
       /\ Len(call.result.subItems) <= MAX_SUB_ITEMS
       /\ call.result.warned <=>
             \A i \in 1..MAX_SUB_ITEMS : HasSubItemName(call.itemRow, i)

\* The call returned 50 sub-items and warned for a record with names at
\* every index up to 52.
C17_Witness ==
    /\ call.fn = "extractSubItems"
    /\ call.returned
    /\ call.result.warned
    /\ Len(call.result.subItems) = 50
    /\ HasSubItemName(call.itemRow, 52)

\* The positions of the records of a tab that carry the code.
RowsWithCode(sheet, code) ==
    {i \in 1..Len(sheet) : RowGet(sheet[i], COL_NUMBER) = code}

\* C18: when two records of the primary tab carry the same non-empty code,
\* mergeSheetData returns without an error and the catalog has a single
\* Item for that code, built from the last of those records: its name and
\* quantity, and every other field, are those of that record.
C18_DuplicateCodeLastWins ==
    call.fn = "mergeSheetData" /\ call.returned =>
       LET sheet == call.sheets["items"]
           items == call.result.items
       IN  \A code \in CodesOf(sheet) :
              Cardinality(RowsWithCode(sheet, code)) >= 2 =>
                 LET last == CHOOSE i \in RowsWithCode(sheet, code) :
                                \A j \in RowsWithCode(sheet, code) : j <= i
                     at == {i \in 1..Len(items) : items[i][1] = code}
                 IN  /\ ~call.result.threw
                     /\ Cardinality(at) = 1
                     /\ \A i \in at :
                           /\ items[i][2].name = RowGet(sheet[last], COL_ITEM)
                           /\ items[i][2].quantity =
                                 RowGet(sheet[last], COL_QUANTITY)
                           /\ items[i][2] = buildItem(call.sheets, sheet[last])

\* The call returned one Item named Stage, without quantity, for a primary
\* tab whose records Booth (quantity 3) and Stage both carry the code 7.
C18_Witness ==
    /\ call.fn = "mergeSheetData"
    /\ call.returned
    /\ Len(call.sheets["items"]) = 2
    /\ RowGet(call.sheets["items"][1], COL_ITEM) = "Booth"
    /\ RowGet(call.sheets["items"][2], COL_ITEM) = "Stage"
    /\ Keys(call.result.items) = <<"7">>
    /\ call.result.items[1][2].name = "Stage"
    /\ call.result.items[1][2].quantity = ""

\* C19: processPlanData throws only for a tab without records: for every
\* tab with at least one record, also a header record that names tiers
\* without a price record after it, it returns.
C19_PlanFailsOnlyWhenEmpty ==
    call.fn = "processPlanData" /\ call.returned =>
       (call.result.threw <=> Len(call.planSheet) = 0)

\* The call threw its explicit error for a tab without records.
C19_Witness ==
    /\ call.fn = "processPlanData"
    /\ call.returned
    /\ call.planSheet = <<>>
    /\ call.result.threw
    /\ call.result.error = "Plan sheet is empty or not found"

\* The 1-based positions of the header cells at column index 2 or higher
\* that are not blank, from the left.
TierColumns(headerRow) ==
    SelectSeq([i \in 1..Len(headerRow) |-> i],
              LAMBDA p : p >= 3 /\ trim(headerRow[p][2]) # "")

\* C20: the Plans processPlanData returns correspond one to one to the
\* non-blank header cells at column index 2 or higher, also when two of
\* them carry the same name or names with the same slug: there are as many
\* Plans as such columns, the Plan of the k-th such column from the left
\* has order k, and the orders are exactly 1..n.
C20_OnePlanPerTierColumn ==
    call.fn = "processPlanData" /\ call.returned /\ ~call.result.threw =>
       LET headerRow == call.planSheet[1]
           cols == TierColumns(headerRow)
           plans == call.result.plans
       IN  /\ Len(plans) = Len(cols)
           /\ {plans[i][2].order : i \in 1..Len(plans)} = 1..Len(cols)
           /\ \A k \in 1..Len(cols) :
                 \E i \in 1..Len(plans) :
                    /\ plans[i][2].order = k
                    /\ plans[i][2].name_zh = trim(headerRow[cols[k]][2])

\* The call returned two Plans, of orders 1 and 2, for a header whose tier
\* columns read Gold and 2.
C20_Witness ==
    /\ call.fn = "processPlanData"
    /\ call.returned
    /\ Len(call.planSheet) = 4
    /\ Values(call.planSheet[1]) = <<"", "price", "Gold", "2">>
    /\ Len(call.result.plans) = 2
    /\ \E i, j \in 1..2 :
          /\ call.result.plans[i][2].name_zh = "Gold"
          /\ call.result.plans[i][2].order = 1
          /\ call.result.plans[j][2].name_zh = "2"
          /\ call.result.plans[j][2].order = 2

\* The trimmed text of the lead column of a record of the sponsorship tab.
LeadText(row) == trim(row[1][2])

\* Some Item of the catalog has this display name.
IsItemName(itemsData, text) ==
    \E i \in 1..Len(itemsData) : itemsData[i][2].name = text

\* The 1-based positions of the records after the price record that are
\* benefits: the lead text is not empty, and it is an Item's name or does
\* not read as a category header.
RetainedRows(planSheet, itemsData) ==
    SelectSeq([r \in 1..Len(planSheet) |-> r],
              LAMBDA r : /\ r >= 3
                         /\ LeadText(planSheet[r]) # ""
                         /\ \/ IsItemName(itemsData, LeadText(planSheet[r]))
                            \/ ~categoryPattern(LeadText(planSheet[r])))

\* C21: a Plan created from tier column c (the Plan of order k comes from
\* the k-th tier column) has as price the price record's cell at column c,
\* and for every retained benefit record one Benefit whose quantity is the
\* trimmed cell of that record at column c, whatever the tier names are.
C21_CellsOfOwnColumn ==
    call.fn = "processPlanData" /\ call.returned /\ ~call.result.threw =>
       LET cols == TierColumns(call.planSheet[1])
           rows == RetainedRows(call.planSheet, call.itemsData)
           plans == call.result.plans
       IN  \A i \in 1..Len(plans) :
              LET plan == plans[i][2]
                  c == cols[plan.order]
              IN  /\ plan.price = call.planSheet[2][c][2]
                  /\ [j \in 1..Len(plan.benefits) |-> plan.benefits[j].quantity]
                       = [j \in 1..Len(rows) |-> trim(call.planSheet[rows[j]][c][2])]

\* The tiers navigator and Gold with the cells 2 and 1 on the record of the
\* Item Booth (code 7): navigator has quantity 2 and gold quantity 1.
C21_Witness ==
    /\ call.fn = "processPlanData"
    /\ call.returned
    /\ Len(call.planSheet) = 4
    /\ Values(call.planSheet[1]) = <<"", "price", TIER_NAVIGATOR, "Gold">>
    /\ Len(call.result.plans) = 2
    /\ Own(call.result.plans, "navigator").price = "$100"
    /\ Own(call.result.plans, "gold").price = "$200"
    /\ Own(call.result.plans, "navigator").benefits =
          <<[item_id |-> "7", item_name |-> "Booth", quantity |-> "2"]>>
    /\ Own(call.result.plans, "gold").benefits =
          <<[item_id |-> "7", item_name |-> "Booth", quantity |-> "1"]>>

\* C22: every retained benefit record contributes exactly one Benefit to
\* every Plan, also when its quantity cell is blank: each Plan's benefit
\* list has one entry per retained record, in the records' order, each with
\* the record's lead text as item_name.
C22_OneBenefitPerRowAndPlan ==
    call.fn = "processPlanData" /\ call.returned /\ ~call.result.threw =>
       LET rows == RetainedRows(call.planSheet, call.itemsData)
           plans == call.result.plans
       IN  \A i \in 1..Len(plans) :
              [j \in 1..Len(plans[i][2].benefits) |->
                    plans[i][2].benefits[j].item_name]
                 = [j \in 1..Len(rows) |-> LeadText(call.planSheet[rows[j]])]

\* Two Plans were returned for a tab with two retained records, one with
\* blank quantity cells: both Plans hold two Benefits, one of them without
\* a quantity.
C22_Witness ==
    /\ call.fn = "processPlanData"
    /\ call.returned
    /\ Len(call.result.plans) = 2
    /\ Len(RetainedRows(call.planSheet, call.itemsData)) = 2
    /\ \A i \in 1..2 :
          /\ Len(call.result.plans[i][2].benefits) = 2
          /\ \E j \in 1..2 : call.result.plans[i][2].benefits[j].quantity = ""

\* What the sponsorship tab's record says about being dropped: its lead
\* text is empty, or it is no Item's name and reads as a category header.
IsDroppedRow(row, itemsData) ==
    \/ LeadText(row) = ""
    \/ ~IsItemName(itemsData, LeadText(row)) /\ categoryPattern(LeadText(row))

\* C23: a record at index 2 or higher is absent from all Plans exactly when
\* its lead text is empty, or is no known item name and matches the
\* category-header pattern; a record matching the pattern but naming an Item
\* is retained, and so is a record of unknown lead text that does not match.
C23_DroppedRows ==
    /\ call.fn = "processPlanData"
    /\ call.returned
    /\ ~call.result.threw
    /\ call.result.plans # <<>>
    => \A r \in 3..Len(call.planSheet) :
          IsDroppedRow(call.planSheet[r], call.itemsData)
            <=> \A i \in 1..Len(call.result.plans) :
                   \A j \in 1..Len(call.result.plans[i][2].benefits) :
                      call.result.plans[i][2].benefits[j].item_name
                         # LeadText(call.planSheet[r])

\* The catalog has an Item named by a text ending in the exposure suffix;
\* the tab's records are one without lead text, one with that Item's name
\* and one with a name no Item has: the Plans hold the last two.
C23_Witness ==
    /\ call.fn = "processPlanData"
    /\ call.returned
    /\ IsItemName(call.itemsData, CAT_OTHER_EXPOSURE)
    /\ Len(call.planSheet) = 5
    /\ call.planSheet[3][1][2] = ""
    /\ call.result.plans # <<>>
    /\ \A i \in 1..Len(call.result.plans) :
          [j \in 1..Len(call.result.plans[i][2].benefits) |->
                call.result.plans[i][2].benefits[j].item_name]
             = <<CAT_OTHER_EXPOSURE, "Lunch">>

\* The code of the last Item of the catalog with this display name, the
\* empty text when there is none.
CodeOfName(itemsData, text) ==
    LET named == {i \in 1..Len(itemsData) : itemsData[i][2].name = text}
    IN  IF named = {} THEN ""
        ELSE itemsData[CHOOSE i \in named : \A k \in named : k <= i][1]

\* C24: a Benefit's item_id is the code of the catalog Item whose display
\* name is exactly the record's lead text, the later Item in catalog order
\* when several share the name, and the empty text when no Item has that
\* name; the call raises no error over the lookup and the Benefit is
\* emitted all the same.
C24_ItemIdByExactName ==
    call.fn = "processPlanData" /\ call.returned /\ Len(call.planSheet) >= 2 =>
       /\ ~call.result.threw
       /\ \A i \in 1..Len(call.result.plans) :
             \A j \in 1..Len(call.result.plans[i][2].benefits) :
                LET benefit == call.result.plans[i][2].benefits[j]
                IN  benefit.item_id = CodeOfName(call.itemsData, benefit.item_name)

\* Two Items of the catalog are named Booth, with codes 7 and x in catalog
\* order: a Plan holds the Benefit Booth of item x.
C24_Witness ==
    /\ call.fn = "processPlanData"
    /\ call.returned
    /\ Len(call.itemsData) >= 2
    /\ \E a, b \in 1..Len(call.itemsData) :
          /\ a < b
          /\ call.itemsData[a][2].name = "Booth"
          /\ call.itemsData[b][2].name = "Booth"
          /\ call.itemsData[b][1] = "x"
    /\ \E i \in 1..Len(call.result.plans) :
          \E j \in 1..Len(call.result.plans[i][2].benefits) :
             call.result.plans[i][2].benefits[j] =
                [item_id |-> "x", item_name |-> "Booth", quantity |-> "2"]

\* The slug and the English name the spec gives a trimmed tier name.
SpecifiedSlug(name) ==
    CASE name = TIER_NAVIGATOR -> "navigator"
      [] name = TIER_DEEP_CULTIVATION -> "deep_cultivation"
      [] name = TIER_VISIONARY -> "visionary"
      [] name = TIER_NEW_SPROUT -> "new_sprout"
      [] OTHER -> toLowerCase(name)

SpecifiedEnglishName(name) ==
    CASE name = TIER_NAVIGATOR -> "Navigator Tier"
      [] name = TIER_DEEP_CULTIVATION -> "Deep Cultivation Tier"
      [] name = TIER_VISIONARY -> "Visionary Tier"
      [] name = TIER_NEW_SPROUT -> "New Sprout Tier"
      [] OTHER -> name

\* C25: each Plan is stored under a key equal to its own id, and the id is
\* a lowercase slug: the four known tier names map to navigator,
\* deep_cultivation, visionary and new_sprout with their curated English
\* names, every other tier name gives the lowercased trimmed name as id and
\* the trimmed name as name_en.
C25_KeyIsSlug ==
    call.fn = "processPlanData" /\ call.returned /\ ~call.result.threw =>
       \A i \in 1..Len(call.result.plans) :
          LET key == call.result.plans[i][1]
              plan == call.result.plans[i][2]
          IN  /\ key = plan.id
              /\ plan.name_zh \in
                    {trim(call.planSheet[1][c][2]) : c \in 3..Len(call.planSheet[1])}
              /\ plan.id = SpecifiedSlug(plan.name_zh)
              /\ plan.name_en = SpecifiedEnglishName(plan.name_zh)

\* The header names a curated tier and the padded name Gold: the plan set
\* holds navigator with its curated English name and gold named Gold.
C25_Witness ==
    /\ call.fn = "processPlanData"
    /\ call.returned
    /\ Len(call.planSheet) >= 2
    /\ Values(call.planSheet[1]) = <<"", "price", TIER_NAVIGATOR, " Gold ">>
    /\ Keys(call.result.plans) = <<"navigator", "gold">>
    /\ Own(call.result.plans, "navigator").id = "navigator"
    /\ Own(call.result.plans, "navigator").name_en = "Navigator Tier"
    /\ Own(call.result.plans, "gold").id = "gold"
    /\ Own(call.result.plans, "gold").name_en = "Gold"

\* Some item of the list has this id; the item that has it.
HasId(items, id) == \E i \in 1..Len(items) : items[i].id = id

ItemWithId(items, id) == items[CHOOSE i \in 1..Len(items) : items[i].id = id]

\* C26: from an empty store, after any sequence of addInterestedItem,
\* removeInterestedItem, clearInterestedItems and updateItemQuantity calls
\* no two stored items share an id; addInterestedItem with an id that is
\* already stored returns false, leaves the store unchanged and dispatches
\* no itemsChange event.
C26_UniqueIds ==
    /\ \A i, j \in 1..Len(getInterestedItems) :
          getInterestedItems[i].id = getInterestedItems[j].id => i = j
    /\ /\ storeCall.fn = "addInterestedItem"
       /\ HasId(ItemsOf(storeCall.before), storeCall.arg.id)
       => /\ storeCall.result = FALSE
          /\ localStorage = storeCall.before
          /\ storeCall.events = 0

\* addInterestedItem was called with the id of one of two stored items, the
\* other item having been updated before.
C26_Witness ==
    /\ storeCall.fn = "addInterestedItem"
    /\ Len(getInterestedItems) = 2
    /\ HasId(ItemsOf(storeCall.before), storeCall.arg.id)
    /\ storeCall.result = FALSE
    /\ \E i \in 1..2 : getInterestedItems[i].quantity = Num(2)

\* C27: updateItemQuantity returns false, leaves the store unchanged and
\* dispatches no itemsChange event when the id is not stored, the quantity
\* is negative or the quantity exceeds the item's non-null maxQuantity;
\* quantity 0 removes the item; hence a quantity set through
\* updateItemQuantity is at least 1 and at most the item's maxQuantity when
\* one is set.
C27_UpdateItemQuantity ==
    storeCall.fn = "updateItemQuantity" =>
       LET before == ItemsOf(storeCall.before)
           itemId == storeCall.arg[1]
           quantity == storeCall.arg[2]
           refused ==
              \/ ~HasId(before, itemId)
              \/ LessThan(quantity, Num(0))
              \/ /\ HasId(before, itemId)
                 /\ NotNullish(ItemWithId(before, itemId).maxQuantity)
                 /\ LessThan(ItemWithId(before, itemId).maxQuantity, quantity)
       IN  /\ refused =>
                /\ storeCall.result = FALSE
                /\ localStorage = storeCall.before
                /\ storeCall.events = 0
           /\ HasId(before, itemId) /\ quantity = Num(0) =>
                ~HasId(getInterestedItems, itemId)
           /\ storeCall.result = TRUE /\ HasId(getInterestedItems, itemId) =>
                LET item == ItemWithId(getInterestedItems, itemId)
                IN  /\ item.quantity.t = "number"
                    /\ item.quantity.halves >= 2
                    /\ NotNullish(item.maxQuantity) =>
                          item.quantity.halves <= item.maxQuantity.halves

\* updateItemQuantity set the quantity of a stored item with a maxQuantity
\* to that maximum.
C27_Witness ==
    /\ storeCall.fn = "updateItemQuantity"
    /\ storeCall.result = TRUE
    /\ storeCall.arg[2] = Num(MaxQuantity)
    /\ HasId(getInterestedItems, storeCall.arg[1])
    /\ ItemWithId(getInterestedItems, storeCall.arg[1]).maxQuantity = Num(MaxQuantity)
    /\ ItemWithId(getInterestedItems, storeCall.arg[1]).quantity = Num(MaxQuantity)

====
